---------------------------- MODULE Spec2Model ----------------------------
(***************************************************************************)
(* A model of the openformats extraction/compilation engine:               *)
(*   - Transcriber                 (src/openformats/transcribers.py)       *)
(*   - JsonHandler                 (src/openformats/formats/json.py)       *)
(*   - LxmlAndroidHandler          (src/openformats/formats/lxml_android.py)*)
(*   - HTMLHandler                 (src/openformats/formats/html.py)       *)
(*                                                                         *)
(* Text is a sequence of one-character strings.  Offsets are 0-based, as   *)
(* in the Python source; Slice(s, a, b) is Python's s[a:b].                *)
(*                                                                         *)
(* A value that a method computes once and reads several times is passed   *)
(* on as the argument of a helper operator (named ...With, ...At, ...Of),  *)
(* so that every call is written once.                                     *)
(***************************************************************************)
EXTENDS Integers, Sequences, FiniteSets, TLC

VARIABLES
    handler,         \* which handler (or class) this run exercises
    pc,              \* "start", then "parsed", then "compiled"
    document,        \* the content handed to parse (the source of a
                     \* Transcriber or of a NewDumbXml)
    parse_result,    \* what parse returned or raised (the object as it was
                     \* before its last call; what a full scan yielded)
    given,           \* the stringset handed to compile (the calls made on
                     \* the object so far)
    compile_result   \* what compile returned or raised (the object now)

vars == <<handler, pc, document, parse_result, given, compile_result>>

\* --------------------------------------------------------------------------
\* Python string primitives
\* --------------------------------------------------------------------------

Min(a, b) == IF a <= b THEN a ELSE b

Max(a, b) == IF a >= b THEN a ELSE b

\* The least element of a set of offsets, or `otherwise` for the empty set
LeastOr(S, otherwise) ==
    IF S = {} THEN otherwise ELSE CHOOSE i \in S : \A j \in S : i <= j

\* The greatest element of a set of offsets, or `otherwise`
GreatestOr(S, otherwise) ==
    IF S = {} THEN otherwise ELSE CHOOSE i \in S : \A j \in S : i >= j

\* A slice index as Python normalises it: negative counts from the end,
\* everything is clamped to [0, len].
NormIndex(i, n) == IF i < 0 THEN Max(n + i, 0) ELSE Min(i, n)

\* s[lo:hi] for normalised lo and hi
SliceNorm(s, lo, hi) == IF hi <= lo THEN <<>> ELSE SubSeq(s, lo + 1, hi)

\* s[a:b]
Slice(s, a, b) == SliceNorm(s, NormIndex(a, Len(s)), NormIndex(b, Len(s)))

\* s[a:]
SliceFrom(s, a) == Slice(s, a, Len(s))

\* s[i], or "" past the end
At(s, i) == IF i >= 0 /\ i < Len(s) THEN s[i + 1] ELSE ""

\* chunk.count(c) for a single character c
Count(s, c) == Cardinality({i \in 1..Len(s) : s[i] = c})

\* s[i:].startswith(sub)
StartsWithAt(s, sub, i) ==
    /\ i >= 0
    /\ i + Len(sub) <= Len(s)
    /\ \A k \in 1..Len(sub) : s[i + k] = sub[k]

\* s.find(sub, from): the least offset >= from where sub occurs, or -1
Find(s, sub, from) ==
    LeastOr({i \in Max(from, 0)..(Len(s) - Len(sub)) : StartsWithAt(s, sub, i)}, -1)

\* s.rfind(sub, 0, end): the greatest offset where sub occurs within s[0:end]
RFind(s, sub, end) ==
    GreatestOr({i \in 0..(Min(end, Len(s)) - Len(sub)) : StartsWithAt(s, sub, i)}, -1)

\* sub in s
Contains(s, sub) == \E i \in 0..(Len(s) - Len(sub)) : StartsWithAt(s, sub, i)

\* Python's whitespace, as far as the model's alphabet has it
Whitespace == {" ", "\n", "\t", "\r"}

\* The least offset >= i holding a character outside `chars`, or len
SkipChars(src, i, chars) ==
    LeastOr({j \in i..(Len(src) - 1) : src[j + 1] \notin chars}, Max(i, Len(src)))

\* The least offset >= i holding a character of `chars`, or len
ScanTo(src, i, chars) ==
    LeastOr({j \in i..(Len(src) - 1) : src[j + 1] \in chars}, Max(i, Len(src)))

\* s.rstrip() for an s that does not start with whitespace
RStrip(s) == SubSeq(s, 1, GreatestOr({i \in 1..Len(s) : s[i] \notin Whitespace}, 0))

\* s.strip()
Strip(s) == RStrip(SliceFrom(s, SkipChars(s, 0, Whitespace)))

RECURSIVE ReplaceAll(_, _, _)
\* s with its first occurrence of old, at p, replaced, and the rest likewise
ReplaceAt(s, old, new, p) ==
    IF p < 0 THEN s
    ELSE Slice(s, 0, p) \o new \o ReplaceAll(SliceFrom(s, p + Len(old)), old, new)

\* s.replace(old, new), old non-empty
ReplaceAll(s, old, new) == ReplaceAt(s, old, new, Find(s, old, 0))

RECURSIVE Flatten(_)
\* The characters of a text glued into one string (used to name a hash)
Flatten(s) == IF s = <<>> THEN "" ELSE Head(s) \o Flatten(Tail(s))

\* --------------------------------------------------------------------------
\* Transcriber (transcribers.py)
\* --------------------------------------------------------------------------

\* Entries of Transcriber.destination: text chunks, the two sentinels, None
Chunk(text) == [kind |-> "chunk", text |-> text]

SectionStart == [kind |-> "SectionStart", text |-> <<>>]

SectionEnd == [kind |-> "SectionEnd", text |-> <<>>]

None == [kind |-> "None", text |-> <<>>]

\* The fields of a new Transcriber over a source already normalised.  Two
\* logs are kept for observation only: ptrs, the value of ptr after every
\* cursor call, and skipped, the span <<from, to>> of every skip
TranscriberOf(source, newline_type) ==
    [source        |-> source,
     destination   |-> <<>>,
     ptr           |-> 0,
     newline_count |-> 0,
     newline_type  |-> newline_type,
     ptrs          |-> <<0>>,
     skipped       |-> <<>>]

\* Transcriber.__init__
Transcriber(source) ==
    IF Contains(source, <<"\r", "\n">>)
    THEN TranscriberOf(ReplaceAll(source, <<"\r", "\n">>, <<"\n">>), "DOS")
    ELSE TranscriberOf(source, "UNIX")

\* The cursor moved to `end` over `chunk`, the chunk appended
CopyChunk(t, chunk, end) ==
    [t EXCEPT !.destination   = Append(@, Chunk(chunk)),
              !.ptr           = end,
              !.newline_count = @ + Count(chunk, "\n"),
              !.ptrs          = Append(@, end)]

\* The cursor moved to `end` over `chunk`, nothing appended
SkipChunk(t, chunk, end) ==
    [t EXCEPT !.ptr           = end,
              !.newline_count = @ + Count(chunk, "\n"),
              !.ptrs          = Append(@, end),
              !.skipped       = Append(@, <<t.ptr, end>>)]

\* Transcriber.copy
copy(t, offset) ==
    CopyChunk(t, Slice(t.source, t.ptr, t.ptr + offset), t.ptr + offset)

\* Transcriber.copy_until
copy_until(t, end) == CopyChunk(t, Slice(t.source, t.ptr, end), end)

\* C25 mutant: add joining the text onto the last entry
add_onto_last(t, text) ==
    IF t.destination = <<>> THEN [t EXCEPT !.destination = <<Chunk(text)>>]
    ELSE [t EXCEPT !.destination[Len(t.destination)] =
                       Chunk(t.destination[Len(t.destination)].text \o text)]

\* Transcriber.add
add(t, text) == [t EXCEPT !.destination = Append(@, Chunk(text))]

\* C13 mutant: skip moving the cursor without counting the newlines
skip_uncounted(t, offset) ==
    [t EXCEPT !.ptr = t.ptr + offset, !.ptrs = Append(@, t.ptr + offset),
              !.skipped = Append(@, <<t.ptr, t.ptr + offset>>)]

\* Transcriber.skip
skip(t, offset) ==
    SkipChunk(t, Slice(t.source, t.ptr, t.ptr + offset), t.ptr + offset)

\* Transcriber.skip_until
skip_until(t, end) == SkipChunk(t, Slice(t.source, t.ptr, end), end)

\* Transcriber.mark_section_start
mark_section_start(t) == [t EXCEPT !.destination = Append(@, SectionStart)]

\* Transcriber.mark_section_end
mark_section_end(t) == [t EXCEPT !.destination = Append(@, SectionEnd)]

\* Transcriber._find_last_section_start: the 0-based index of the place-th
\* SectionStart counted from the end of destination, or -1 (Python: None)
_find_last_section_start(t, place) ==
    LeastOr({i \in 0..(Len(t.destination) - 1) :
                /\ t.destination[i + 1] = SectionStart
                /\ Cardinality({j \in (i + 1)..(Len(t.destination) - 1) :
                                   t.destination[j + 1] = SectionStart}) = place},
            -1)

\* destination with the entries start..end (0-based, inclusive) set to None
Tombstone(t, start, end) ==
    [t EXCEPT !.destination =
        [i \in 1..Len(t.destination) |->
            IF i - 1 >= start /\ i - 1 <= end THEN None ELSE t.destination[i]]]

\* The body of remove_section once the section start is known
RemoveSectionFrom(t, start) ==
    Tombstone(t, start,
              LeastOr({i \in Max(start, 0)..(Len(t.destination) - 1) :
                          t.destination[i + 1] = SectionEnd},
                      Len(t.destination) - 1))

\* Transcriber.remove_section
remove_section(t, place) == RemoveSectionFrom(t, _find_last_section_start(t, place))

\* Transcriber.line_number
line_number(t) == t.newline_count + 1

\* Transcriber.edit_newlines; enforce_newline_type "" stands for None
edit_newlines(t, chunk, enforce_newline_type) ==
    IF \/ (enforce_newline_type = "" /\ t.newline_type = "DOS")
       \/ enforce_newline_type = "DOS"
    THEN ReplaceAll(chunk, <<"\n">>, <<"\r", "\n">>)
    ELSE chunk

RECURSIVE JoinChunks(_)
\* "".join of the chunks that are neither sentinels nor None
JoinChunks(destination) ==
    IF destination = <<>> THEN <<>>
    ELSE Head(destination).text \o JoinChunks(Tail(destination))

\* Transcriber.get_destination(): every chunk's newlines are edited alike,
\* so the joined text is edited once
get_destination(t) == edit_newlines(t, JoinChunks(t.destination), "")

\* --------------------------------------------------------------------------
\* OpenString (strings.py) and the plural rule table (handlers.py)
\* --------------------------------------------------------------------------

\* Handler._RULES_ATOI: rule name -> rule number
RuleNames == <<<<"z", "e", "r", "o">>, <<"o", "n", "e">>, <<"t", "w", "o">>,
               <<"f", "e", "w">>, <<"m", "a", "n", "y">>,
               <<"o", "t", "h", "e", "r">>>>

\* Handler.get_rule_number(name); -1 stands for RuleError
get_rule_number(name) ==
    LeastOr({i \in 1..Len(RuleNames) : RuleNames[i] = name}, 0) - 1

\* Handler.get_rule_string(number)
get_rule_string(rule) == RuleNames[rule + 1]

\* OpenString(key, string_or_strings, order=..., pluralized=..., context=...)
\* `string` is a text, or for a pluralized string a function rule -> text.
OpenString(key, string, order, pluralized, context) ==
    [key |-> key, string |-> string, order |-> order,
     pluralized |-> pluralized, context |-> context]

\* OpenString.template_replacement: a fixed-width token, "<hash>_tr" or
\* "<hash>_pl", whose hash is a function of the key and the context.  The
\* token is two characters wide here: the hash and the suffix.
template_replacement(openstring) ==
    << "#" \o Flatten(openstring.key) \o ":" \o Flatten(openstring.context),
       IF openstring.pluralized THEN "_pl" ELSE "_tr" >>

\* --------------------------------------------------------------------------
\* DumbJson (utils/json.py): the position-reporting JSON scanner
\* --------------------------------------------------------------------------

\* A scanned value: a string ("str", with its raw text), a nested container
\* ("dict"/"list", with its items and the offsets of its brackets), any other
\* JSON scalar ("other"), or a syntax error ("bad": DumbJson's ValueError).
JsonValue(type, text, start, end, items) ==
    [type |-> type, text |-> text, start |-> start, end |-> end, items |-> items]

BadJson(at) == JsonValue("bad", <<>>, at, at, <<>>)

\* The bracket that closes a container
Closer(type) == IF type = "dict" THEN "}" ELSE "]"

RECURSIVE DumbJsonItems(_, _, _, _, _)
\* The container whose opening bracket is at p
DumbJsonAt(source, p) ==
    IF At(source, p) \in {"{", "["}
    THEN DumbJsonItems(source, p + 1,
                       IF At(source, p) = "{" THEN "dict" ELSE "list", p, <<>>)
    ELSE BadJson(p)

\* DumbJson(source, start): the container whose opening bracket is the first
\* non-blank character at or after start
DumbJson(source, start) == DumbJsonAt(source, SkipChars(source, start, Whitespace))

\* A string value opening at v whose closing quote is at sq
ScanString(source, v, sq) ==
    IF sq < 0 THEN BadJson(v)
    ELSE JsonValue("str", Slice(source, v + 1, sq), v + 1, sq, <<>>)

\* A number, true, false or null starting at v and ending before se
ScanOther(source, v, se) ==
    IF se = v THEN BadJson(v)
    ELSE JsonValue("other", Slice(source, v, se), v, se - 1, <<>>)

\* The value that starts at v
ScanValue(source, v) ==
    IF At(source, v) = "\"" THEN ScanString(source, v, Find(source, <<"\"">>, v + 1))
    ELSE IF At(source, v) \in {"{", "["} THEN DumbJsonAt(source, v)
    ELSE ScanOther(source, v, ScanTo(source, v, Whitespace \cup {",", "}", "]"}))

\* What follows an item: a comma and more items, or the closing bracket
AfterItem(source, after, type, start, items) ==
    IF At(source, after) = ","
    THEN DumbJsonItems(source, after + 1, type, start, items)
    ELSE IF At(source, after) = Closer(type)
    THEN JsonValue(type, <<>>, start, after, items)
    ELSE BadJson(after)

\* One item scanned: a dict item is (key, key_position, value,
\* value_position), a list item (value, value_position).  Positions are
\* absolute offsets: of the first character inside the quotes for a key or a
\* string, of the opening bracket for a nested container, of the first
\* character for another scalar.
ItemScanned(source, p, key, value, type, start, items) ==
    IF value.type = "bad" THEN value
    ELSE AfterItem(source, SkipChars(source, value.end + 1, Whitespace),
                   type, start,
                   Append(items, [key            |-> key,
                                  key_position   |-> p + 1,
                                  value          |-> value,
                                  value_position |-> value.start]))

\* A dict item whose key opens at p and closes at kq, the colon due at kc
DictItem(source, p, kq, kc, start, items) ==
    IF At(source, p) # "\"" \/ kq < 0 \/ At(source, kc) # ":" THEN BadJson(p)
    ELSE ItemScanned(source, p, Slice(source, p + 1, kq),
                     ScanValue(source, SkipChars(source, kc + 1, Whitespace)),
                     "dict", start, items)

\* The closing bracket or the next item at p
ItemsAt(source, p, kq, type, start, items) ==
    IF At(source, p) = Closer(type) THEN JsonValue(type, <<>>, start, p, items)
    ELSE IF type = "dict"
    THEN DictItem(source, p, kq, SkipChars(source, kq + 1, Whitespace), start, items)
    ELSE ItemScanned(source, p, <<>>, ScanValue(source, p), "list", start, items)

\* The position of the closing quote of a key that opens at p
KeyEnd(source, p) == Find(source, <<"\"">>, p + 1)

\* DumbJson.__iter__: the items of the container opened at `start`, scanned
\* from pos on
DumbJsonItems(source, pos, type, start, items) ==
    ItemsAt(source, SkipChars(source, pos, Whitespace),
            KeyEnd(source, SkipChars(source, pos, Whitespace)), type, start, items)

\* --------------------------------------------------------------------------
\* The regular expression and the pyparsing grammars of JsonHandler
\* --------------------------------------------------------------------------

Letters == {"a", "b", "c", "d", "e", "f", "g", "h", "i", "j", "k", "l", "m",
            "n", "o", "p", "q", "r", "s", "t", "u", "v", "w", "x", "y", "z"}

Digits == {"0", "1", "2", "3", "4", "5", "6", "7", "8", "9"}

\* pyparsing.alphanums
Alphanums == Letters \cup Digits

\* What re.match returns: whether it matched, and groups 1, 2 and 3
Match(ok, keyword, argument, serialized_strings) ==
    [matches            |-> ok,
     keyword            |-> IF ok THEN keyword ELSE <<>>,
     argument           |-> IF ok THEN argument ELSE <<>>,
     serialized_strings |-> IF ok THEN serialized_strings ELSE <<>>]

\* ... \s*(.*)}\s*  : group 3 runs from i5 to the last "}" of its line
EnvelopeTail(value, keyword, argument, ok, i5, last) ==
    Match(ok /\ last >= i5, keyword, argument, Slice(value, i5, last))

\* ... \s*,\s*  after group 2, which ends at arge; i4 is where the comma is due
EnvelopeStrings(value, keyword, argument, ok, i4, i5) ==
    EnvelopeTail(value, keyword, argument, ok /\ At(value, i4) = ",", i5,
                 RFind(value, <<"}">>, ScanTo(value, i5, {"\n"})))

\* ... ([A-Za-z_]+)  : group 2 runs from i3 to arge
EnvelopeArgument(value, keyword, ok, i3, arge) ==
    EnvelopeStrings(value, keyword, Slice(value, i3, arge), ok /\ arge > i3,
                    SkipChars(value, arge, Whitespace),
                    SkipChars(value, SkipChars(value, arge, Whitespace) + 1, Whitespace))

\* ... \s*,\s*  after group 1; i2 is where the comma is due
EnvelopeComma(value, keyword, ok, i2, i3) ==
    EnvelopeArgument(value, keyword, ok /\ At(value, i2) = ",", i3,
                     SkipChars(value, i3, Letters \cup {"_"}))

\* ... ([A-Za-z-_\d]+)  : group 1 runs from i1 to kwe
EnvelopeKeyword(value, ok, i1, kwe) ==
    EnvelopeComma(value, Slice(value, i1, kwe), ok /\ kwe > i1,
                  SkipChars(value, kwe, Whitespace),
                  SkipChars(value, SkipChars(value, kwe, Whitespace) + 1, Whitespace))

\* \s*{\s*  : the opening brace is due at i0
EnvelopeOpen(value, i0, i1) ==
    EnvelopeKeyword(value, At(value, i0) = "{", i1,
                    SkipChars(value, i1, Letters \cup Digits \cup {"-", "_"}))

\* re.match(ur'\s*{\s*([A-Za-z-_\d]+)\s*,\s*([A-Za-z_]+)\s*,\s*(.*)}\s*', value)
\* Every quantifier is greedy and none can give a character back to a later
\* part of the pattern, except (.*), which stops at the last "}" of its line.
EnvelopeMatch(value) ==
    EnvelopeOpen(value, SkipChars(value, 0, Whitespace),
                 SkipChars(value, SkipChars(value, 0, Whitespace) + 1, Whitespace))

RECURSIVE NestedExprFrom(_, _, _, _)
\* A quote at i whose partner is at q: skipped as a unit when on one line
NestedExprQuote(s, i, q, depth) ==
    IF q >= 0 /\ q < ScanTo(s, i + 1, {"\n"})
    THEN NestedExprFrom(s, q + 1, depth, TRUE)
    ELSE NestedExprFrom(s, i + 1, depth, TRUE)

\* pyparsing.nestedExpr('{', '}', ignoreExpr=...): s[i] is inside `depth` open
\* braces; the offset just after the brace that closes the outermost one, or
\* -1 when the text ends first.  With quoted (the default ignoreExpr,
\* quotedString) a '...' or "..." on one line is skipped as a unit; with
\* ignoreExpr=Literal("'") a quote is an ordinary character.
NestedExprFrom(s, i, depth, quoted) ==
    IF i >= Len(s) THEN -1
    ELSE IF At(s, i) = "}" /\ depth = 1 THEN i + 1
    ELSE IF quoted /\ At(s, i) \in {"'", "\""}
    THEN NestedExprQuote(s, i, Find(s, <<At(s, i)>>, i + 1), depth)
    ELSE NestedExprFrom(s, i + 1,
                        IF At(s, i) = "{" THEN depth + 1
                        ELSE IF At(s, i) = "}" THEN depth - 1
                        ELSE depth,
                        quoted)

\* nestedExpr at p, leading whitespace already skipped: the end offset or -1
NestedExprAt(s, p, quoted) ==
    IF At(s, p) = "{" THEN NestedExprFrom(s, p + 1, 1, quoted) ELSE -1

\* nestedExpr at loc: the end offset or -1
NestedExpr(s, loc, quoted) == NestedExprAt(s, SkipChars(s, loc, Whitespace), quoted)

\* e if it lies beyond p, else -1
Beyond(p, e) == IF e > p THEN e ELSE -1

\* pyparsing.Word(pyparsing.alphanums) at p: the end of the longest run, or -1
WordEnd(s, p) == IF p < 0 THEN -1 ELSE Beyond(p, SkipChars(s, p, Alphanums))

\* pyparsing.oneOf(PLURAL_KEYS_STR) at p: the end of the rule name, or -1
OneOfRuleEnd(s, p) ==
    LeastOr({p + Len(RuleNames[i]) : i \in {j \in 1..Len(RuleNames) :
                                              StartsWithAt(s, RuleNames[j], p)}},
            -1)

\* Literal('=') at p: where the following token starts, or -1
EqualsEnd(s, p) == IF At(s, p) = "=" THEN SkipChars(s, p + 1, Whitespace) ELSE -1

\* The end of the leading token of a grammar at p, or -1
TokenEnd(s, p, grammar) ==
    IF grammar = "valid" THEN OneOfRuleEnd(s, p)
    ELSE WordEnd(s, IF grammar = "any" THEN p ELSE EqualsEnd(s, p))

\* The braces after a leading token that ends at w
ParseItemBraces(s, w, grammar) ==
    IF w < 0 THEN -1 ELSE NestedExpr(s, w, grammar = "equality")

\* One parse attempt of a grammar at p (whitespace already skipped):
\*   "any"      Word(alphanums) + nestedExpr('{', '}', ignoreExpr=Literal("'"))
\*   "valid"    oneOf(PLURAL_KEYS_STR) + nestedExpr(..., ignoreExpr=Literal("'"))
\*   "equality" Literal('=') + Word(alphanums) + nestedExpr('{', '}')
\* The end offset of the match, or -1.
ParseItemAt(s, p, grammar) == ParseItemBraces(s, TokenEnd(s, p, grammar), grammar)

RECURSIVE SearchStringFrom(_, _, _, _)
\* One scan step at p, where a parse attempt ended at e
SearchStringStep(s, p, e, grammar, found) ==
    IF p >= Len(s) THEN found
    ELSE SearchStringFrom(s, IF e < 0 THEN p + 1 ELSE e, grammar,
                          IF e < 0 THEN found ELSE Append(found, Slice(s, p, e)))

\* The scan resumed at p, whitespace skipped
SearchStringAt(s, p, grammar, found) ==
    SearchStringStep(s, p, ParseItemAt(s, p, grammar), grammar, found)

\* pyparsing scanString: try the grammar at every offset in turn, resume
\* after each match
SearchStringFrom(s, loc, grammar, found) ==
    SearchStringAt(s, SkipChars(s, loc, Whitespace), grammar, found)

\* pyparsing.originalTextFor(grammar).searchString(s): the matched texts
SearchString(s, grammar) == SearchStringFrom(s, 0, grammar, <<>>)

\* --------------------------------------------------------------------------
\* JsonHandler.parse (formats/json.py)
\* --------------------------------------------------------------------------

\* No exception raised so far
NoError == [kind |-> "none", key |-> <<>>, line |-> 0]

\* ParseError (or another exception kind) about `key`, reported for `line`
RaiseError(kind, key, line) == [kind |-> kind, key |-> key, line |-> line]

\* `nest` when it is None
NoNest == <<"None">>

\* JsonHandler.PLURAL_ARG
PLURAL_ARG == <<"p", "l", "u", "r", "a", "l">>

\* JsonHandler._escape_key
_escape_key(key) ==
    ReplaceAll(ReplaceAll(key, <<"\\">>, <<"\\", "\\">>), <<".">>, <<"\\", ".">>)

\* The decimal digits of a list index (indices below 10)
IndexText(index) == <<ToString(index)>>

\* The handler's state while parsing: self.transcriber, self.stringset,
\* self.existing_keys, the next value of self._order, and the exception
\* raised, if any
ParseState(transcriber) ==
    [transcriber   |-> transcriber,
     stringset     |-> <<>>,
     existing_keys |-> {},
     order         |-> 0,
     error         |-> NoError]

\* What _parse_special and _get_regular_string hand back: the handler state
\* and the OpenString returned, if one was
StringResult(h, found, openstring) ==
    [h |-> h, found |-> found, openstring |-> openstring]

\* The handler state once `kind` is raised about `key`
Raised(h, kind, key) ==
    StringResult([h EXCEPT !.error = RaiseError(kind, key, line_number(h.transcriber))],
                 FALSE, <<>>)

\* C21 mutant: the replacement made without drawing from the order counter
ReplacedUncounted(h, openstring, position, length) ==
    StringResult([h EXCEPT !.transcriber =
                               skip(add(copy_until(@, position),
                                        template_replacement(openstring)),
                                    length)],
                 TRUE, openstring)

\* copy_until(position); add(template_replacement); skip(length), with the
\* order counter advanced by the OpenString's construction
Replaced(h, openstring, position, length) ==
    StringResult([h EXCEPT !.order = @ + 1,
                           !.transcriber =
                               skip(add(copy_until(@, position),
                                        template_replacement(openstring)),
                                    length)],
                 TRUE, openstring)

\* C2 mutant: _get_regular_string replacing the quotes with the value
_get_regular_string_with_quotes(h, key, value, value_position) ==
    Replaced(h, OpenString(key, value, h.order, FALSE, <<>>), value_position - 1,
             Len(value) + 2)

\* JsonHandler._get_regular_string
_get_regular_string(h, key, value, value_position) ==
    Replaced(h, OpenString(key, value, h.order, FALSE, <<>>), value_position,
             Len(value))

RECURSIVE RemoveMatches(_, _)
\* for match in all_matches: remaining_str = remaining_str.replace(match, '')
RemoveMatches(remaining_str, all_matches) ==
    IF all_matches = <<>> THEN remaining_str
    ELSE RemoveMatches(ReplaceAll(remaining_str, Head(all_matches), <<>>),
                       Tail(all_matches))

\* JsonHandler._validate_plural_content_format: TRUE when nothing but
\* whitespace is left of serialized_strings once all matches are taken out
_validate_plural_content_format(serialized_strings, all_matches) ==
    Strip(ReplaceAll(ReplaceAll(RemoveMatches(serialized_strings, all_matches),
                                <<"\\", "n">>, <<"\n">>),
                     <<"\\", "t">>, <<"\t">>)) = <<>>

\* (plurality, content) of a match whose first brace is at opening_brace_index
PluralContent(string, opening_brace_index) ==
    [plurality |-> Strip(Slice(string, 0, opening_brace_index)),
     content   |-> SliceFrom(string, opening_brace_index)]

\* JsonHandler._parse_plural_content: (plurality, content with its braces)
_parse_plural_content(string) == PluralContent(string, Find(string, <<"{">>, 0))

\* C16 mutant: the content kept with its outer braces
Braced(content) == content

\* content[1:-1]
Unbraced(content) == Slice(content, 1, Len(content) - 1)

\* The last group of all_strings_list that carries rule r
LastOfRule(all_strings_list, r) ==
    GreatestOr({i \in 1..Len(all_strings_list) :
                   get_rule_number(all_strings_list[i].plurality) = r}, 0)

\* dict(all_strings_list), then rule numbers for names and content[1:-1]:
\* the last group of a rule name wins
PluralDict(all_strings_list) ==
    [r \in {get_rule_number(all_strings_list[i].plurality) :
               i \in 1..Len(all_strings_list)} |->
        Unbraced(all_strings_list[LastOfRule(all_strings_list, r)].content)]

\* current_pos after the keyword, the 'plural' argument and its comma
AfterPluralComma(value, keyword) ==
    Find(value, <<",">>,
         Find(value, PLURAL_ARG, Find(value, keyword, 0) + Len(keyword))
             + Len(PLURAL_ARG)) + 1

\* value.rfind('}', 0, value.rfind('}')) + 1
SecondLastClosingBrace(value) ==
    RFind(value, <<"}">>, RFind(value, <<"}">>, Len(value))) + 1

\* The transcriber calls of _parse_pluralized_string, current_pos known
PluralReplaced(h, openstring, value, value_position, current_pos) ==
    Replaced(h, openstring, value_position + current_pos,
             Len(Slice(value, current_pos, SecondLastClosingBrace(value))))

\* _parse_pluralized_string from all_strings_list on (lines 249-290);
\* all_strings_list[0] of an empty list is an IndexError, raised after the
\* OpenString took its order
PluralStrings(h, key, keyword, value, value_position, all_strings_list) ==
    IF all_strings_list = <<>>
    THEN Raised([h EXCEPT !.order = @ + 1], "IndexError", key)
    ELSE PluralReplaced(h,
                        OpenString(key, PluralDict(all_strings_list), h.order,
                                   TRUE, <<>>),
                        value, value_position,
                        Find(value, all_strings_list[1].plurality,
                             AfterPluralComma(value, keyword)))

\* C18 mutant: _parse_pluralized_string without the return on an
\* explicit-count group
PluralMatchedThroughEquality(h, key, keyword, value, value_position, serialized_strings, equality_matches, all_matches, valid_matches) ==
    IF ~_validate_plural_content_format(serialized_strings, all_matches)
    THEN Raised(h, "ParseError: invalid braces", key)
    ELSE IF Len(valid_matches) # Len(all_matches)
    THEN Raised(h, "ParseError: invalid plural rule", key)
    ELSE PluralStrings(h, key, keyword, value, value_position,
                       [i \in 1..Len(valid_matches) |->
                           _parse_plural_content(valid_matches[i])])

\* _parse_pluralized_string once the three grammars have been searched
PluralMatched(h, key, keyword, value, value_position, serialized_strings, equality_matches, all_matches, valid_matches) ==
    IF Len(equality_matches) > 0 THEN StringResult(h, FALSE, <<>>)
    ELSE IF ~_validate_plural_content_format(serialized_strings, all_matches)
    THEN Raised(h, "ParseError: invalid braces", key)
    ELSE IF Len(valid_matches) # Len(all_matches)
    THEN Raised(h, "ParseError: invalid plural rule", key)
    ELSE PluralStrings(h, key, keyword, value, value_position,
                       [i \in 1..Len(valid_matches) |->
                           _parse_plural_content(valid_matches[i])])

\* JsonHandler._parse_pluralized_string
_parse_pluralized_string(h, key, keyword, value, value_position, serialized_strings) ==
    PluralMatched(h, key, keyword, value, value_position, serialized_strings,
                  SearchString(serialized_strings, "equality"),
                  SearchString(serialized_strings, "any"),
                  SearchString(serialized_strings, "valid"))

\* _parse_special once the regular expression has been tried
SpecialMatched(h, key, value, value_position, matches) ==
    IF matches.matches /\ matches.argument = PLURAL_ARG
    THEN _parse_pluralized_string(h, key, matches.keyword, value,
                                  value_position, matches.serialized_strings)
    ELSE StringResult(h, FALSE, <<>>)

\* JsonHandler._parse_special
_parse_special(h, key, value, value_position) ==
    SpecialMatched(h, key, value, value_position, EnvelopeMatch(value))

\* if openstring: self.stringset.append(openstring)
Appended(got) ==
    IF got.found THEN [got.h EXCEPT !.stringset = Append(@, got.openstring)]
    ELSE got.h

\* if not openstring: openstring = self._get_regular_string(...)
SpecialOrRegular(h, key, value, value_position, special) ==
    Appended(IF special.found \/ special.h.error # NoError THEN special
             ELSE _get_regular_string(h, key, value, value_position))

\* C9 mutant: the string branch of _extract without `if not value.strip()`
ExtractStringAlways(h, key, value, value_position) ==
    SpecialOrRegular(h, key, value, value_position,
                     _parse_special(h, key, value, value_position))

\* The string branch of _extract (lines 68-84 and 99-109): skip a blank
\* value, else try _parse_special, then _get_regular_string, and append
ExtractString(h, key, value, value_position) ==
    IF Strip(value) = <<>> THEN h
    ELSE SpecialOrRegular(h, key, value, value_position,
                          _parse_special(h, key, value, value_position))

\* u"{}.{}".format(nest, key) and u"{}..{}..".format(nest, index)
ItemKey(type, nest, key, index) ==
    (IF nest = NoNest THEN <<>>
     ELSE IF type = "dict" THEN nest \o <<".">> ELSE nest)
    \o (IF type = "dict" THEN _escape_key(key)
        ELSE <<".", ".">> \o IndexText(index) \o <<".", ".">>)

RECURSIVE ExtractItems(_, _, _, _)
\* JsonHandler._extract(parsed, nest)
_extract(h, parsed, nest) ==
    IF parsed.type \in {"dict", "list"} THEN ExtractItems(h, parsed, nest, 1)
    ELSE [h EXCEPT !.error =
             RaiseError("ParseError: Invalid JSON", <<>>, line_number(h.transcriber))]

\* The branches of _extract on the type of one value
ExtractValue(h, key, value, value_position) ==
    IF value.type = "str" THEN ExtractString(h, key, value.text, value_position)
    ELSE IF value.type \in {"dict", "list"} THEN _extract(h, value, key)
    ELSE h

\* 'key' should be unique: copy_until(key_position) for the line number,
\* then ParseError
Duplicate(h, key, transcriber) ==
    [h EXCEPT !.transcriber = transcriber,
              !.error = RaiseError("ParseError: Duplicate string key", key,
                                   line_number(transcriber))]

\* C3 mutant: an iteration of the loop of _extract without the check of
\* existing_keys
ExtractItemUnchecked(h, parsed, nest, i, item, key) ==
    ExtractItems(ExtractValue([h EXCEPT !.existing_keys = @ \cup {key}],
                              key, item.value, item.value_position),
                 parsed, nest, i + 1)

\* One iteration of the loop of _extract, for `item` under `key`
ExtractItem(h, parsed, nest, i, item, key) ==
    IF parsed.type = "dict" /\ key \in h.existing_keys
    THEN Duplicate(h, key, copy_until(h.transcriber, item.key_position))
    ELSE ExtractItems(ExtractValue(IF parsed.type = "dict"
                                   THEN [h EXCEPT !.existing_keys = @ \cup {key}]
                                   ELSE h,
                                   key, item.value, item.value_position),
                      parsed, nest, i + 1)

\* The loop of _extract from the i-th item of `parsed` on
ExtractItems(h, parsed, nest, i) ==
    IF i > Len(parsed.items) \/ h.error # NoError THEN h
    ELSE ExtractItem(h, parsed, nest, i, parsed.items[i],
                     ItemKey(parsed.type, nest, parsed.items[i].key, i - 1))

\* What parse returns or raises: the template and the stringset, with the
\* handler's transcriber and order counter for observation
ParseReturn(h) ==
    [raised      |-> h.error # NoError,
     error       |-> h.error,
     template    |-> IF h.error = NoError THEN get_destination(h.transcriber)
                     ELSE <<>>,
     stringset   |-> IF h.error = NoError THEN h.stringset ELSE <<>>,
     order       |-> h.order,
     transcriber |-> h.transcriber]

\* self.transcriber.copy_until(len(source)), unless an exception is under way
ParseFinish(h) ==
    IF h.error = NoError
    THEN [h EXCEPT !.transcriber = copy_until(@, Len(@.source))]
    ELSE h

\* parsed = DumbJson(source), ValueError turned into ParseError; _extract
ParseBody(h, parsed) ==
    IF parsed.type = "bad"
    THEN [h EXCEPT !.error = RaiseError("ParseError", <<>>, 1)]
    ELSE _extract(h, parsed, NoNest)

\* parse from the construction of the Transcriber on
ParseWith(transcriber) ==
    ParseReturn(ParseFinish(ParseBody(ParseState(transcriber),
                                      DumbJson(transcriber.source, 0))))

\* JsonHandler.parse(content).  validate_content (json.loads) accepts every
\* document the model draws.
parse(content) == ParseWith(Transcriber(content))

\* --------------------------------------------------------------------------
\* JsonHandler.compile (formats/json.py)
\* --------------------------------------------------------------------------

\* The handler's state while compiling: self.transcriber, self.stringset,
\* self.stringset_index
CompileState(transcriber, stringset) ==
    [transcriber     |-> transcriber,
     stringset       |-> stringset,
     stringset_index |-> 0]

\* What the _insert* methods hand back: the handler state and at_least_one
InsertResult(c, at_least_one) == [c |-> c, at_least_one |-> at_least_one]

\* u'{} {{{}}}'.format(Handler.get_rule_string(rule), translation)
PluralGroup(strings, rule) ==
    get_rule_string(rule) \o <<" ", "{">> \o strings[rule] \o <<"}">>

RECURSIVE SerializeRules(_, _, _)
\* The group of `rule`, then the groups of the rules left
SerializeLeast(strings, rules, rule, delimiter) ==
    PluralGroup(strings, rule)
    \o (IF rules = {rule} THEN <<>>
        ELSE delimiter \o SerializeRules(strings, rules \ {rule}, delimiter))

\* C19 mutant: the groups joined from the greatest rule number down
SerializeGreatest(strings, rules, delimiter) ==
    IF rules = {} THEN <<>>
    ELSE SerializeLeast(strings, rules, GreatestOr(rules, 0), delimiter)

\* delimiter.join(plural_list) over `rules`, in the order dict.iteritems()
\* yields small integer keys: ascending
SerializeRules(strings, rules, delimiter) ==
    IF rules = {} THEN <<>>
    ELSE SerializeLeast(strings, rules, LeastOr(rules, 0), delimiter)

\* JsonHandler.serialize_pluralized_string
serialize_pluralized_string(pluralized_string, delimiter) ==
    SerializeRules(pluralized_string.string, DOMAIN pluralized_string.string,
                   delimiter)

\* JsonHandler._get_next_string: TRUE when stringset[stringset_index] exists
HasNextString(c) == c.stringset_index < Len(c.stringset)

\* JsonHandler._get_next_string when it does not return None
_get_next_string(c) == c.stringset[c.stringset_index + 1]

\* JsonHandler._copy_until_and_remove_section
_copy_until_and_remove_section(c, pos) ==
    [c EXCEPT !.transcriber =
        remove_section(mark_section_end(copy_until(@, pos)), 0)]

\* The transcriber calls of _insert_plural_string
InsertPluralAt(c, value, value_position, templ_replacement, replacement, replacement_pos) ==
    [c EXCEPT !.transcriber =
                  copy(skip(add(copy_until(@, value_position + replacement_pos),
                                replacement),
                            Len(templ_replacement)),
                       Len(value) - replacement_pos - Len(templ_replacement)),
              !.stringset_index = @ + 1]

\* JsonHandler._insert_plural_string
_insert_plural_string(c, value, value_position, string, is_real_stringset) ==
    InsertPluralAt(c, value, value_position, template_replacement(string),
                   IF is_real_stringset
                   THEN serialize_pluralized_string(string, <<" ">>)
                   ELSE template_replacement(string),
                   Find(value, template_replacement(string), 0))

\* C23 mutant: _insert_regular_string without `self.stringset_index += 1`
_insert_regular_string_in_place(c, value, value_position, string, is_real_stringset) ==
    [c EXCEPT !.transcriber = skip(add(copy_until(@, value_position), string.string),
                                   Len(value))]

\* JsonHandler._insert_regular_string
_insert_regular_string(c, value, value_position, string, is_real_stringset) ==
    [c EXCEPT !.transcriber = skip(add(copy_until(@, value_position), string.string),
                                   Len(value)),
              !.stringset_index = @ + 1]

\* The string branch of _insert_item when _get_next_string returned `string`
InsertNext(c, value, value_position, string, is_real_stringset) ==
    IF string.pluralized /\ Contains(value, template_replacement(string))
    THEN InsertResult(_insert_plural_string(c, value, value_position, string,
                                            is_real_stringset), TRUE)
    ELSE IF value = template_replacement(string)
    THEN InsertResult(_insert_regular_string(c, value, value_position, string,
                                             is_real_stringset), TRUE)
    ELSE InsertResult(_copy_until_and_remove_section(
                          c, value_position + Len(value) + 1), FALSE)

\* The string branch of _insert_item
InsertString(c, value, value_position, is_real_stringset) ==
    IF HasNextString(c)
    THEN InsertNext(c, value, value_position, _get_next_string(c), is_real_stringset)
    ELSE InsertResult(_copy_until_and_remove_section(
                          c, value_position + Len(value) + 1), FALSE)

\* The DumbJson branch of _insert_item once _insert returned `nested`
InsertNested(nested, value) ==
    IF ~nested.at_least_one
    THEN InsertResult(_copy_until_and_remove_section(nested.c, value.end + 1), FALSE)
    ELSE InsertResult(nested.c, TRUE)

RECURSIVE InsertItems(_, _, _, _, _)
\* JsonHandler._insert / _insert_from_dict / _insert_from_list
_insert(c, parsed, is_real_stringset) ==
    InsertItems(c, parsed, is_real_stringset, 1, FALSE)

\* JsonHandler._insert_item
_insert_item(c, value, value_position, is_real_stringset) ==
    IF value.type = "str"
    THEN InsertString(c, value.text, value_position, is_real_stringset)
    ELSE IF value.type \in {"dict", "list"}
    THEN InsertNested(_insert(c, value, is_real_stringset), value)
    ELSE InsertResult(c, TRUE)

\* Where the section of an item starts: key_position - 1 in a dict,
\* value_position - 1 in a list
ItemStart(type, item) ==
    IF type = "dict" THEN item.key_position - 1 ELSE item.value_position - 1

\* if tmp_at_least_one: at_least_one = True, and on to the next item
InsertedItem(r, parsed, is_real_stringset, i, at_least_one) ==
    InsertItems(r.c, parsed, is_real_stringset, i + 1, at_least_one \/ r.at_least_one)

\* The loops of _insert_from_dict and _insert_from_list from the i-th item on
InsertItems(c, parsed, is_real_stringset, i, at_least_one) ==
    IF i > Len(parsed.items) THEN InsertResult(c, at_least_one)
    ELSE InsertedItem(
             _insert_item([c EXCEPT !.transcriber =
                              mark_section_start(
                                  copy_until(@, ItemStart(parsed.type, parsed.items[i])))],
                          parsed.items[i].value, parsed.items[i].value_position,
                          is_real_stringset),
             parsed, is_real_stringset, i, at_least_one)

\* What _replace_translations returns, with the Transcriber for its ptrs
ReplaceRendered(transcriber, stringset_index) ==
    [raised          |-> FALSE,
     text            |-> get_destination(transcriber),
     transcriber     |-> transcriber,
     stringset_index |-> stringset_index]

\* self.transcriber.copy_until(len(template))
ReplaceFinish(c) ==
    ReplaceRendered(copy_until(c.transcriber, Len(c.transcriber.source)),
                    c.stringset_index)

\* parsed = DumbJson(template), which raises ValueError on a template that
\* is not a container; self._insert(parsed, is_real_stringset)
ReplaceParsed(c, parsed, is_real_stringset) ==
    IF parsed.type = "bad"
    THEN [raised |-> TRUE, text |-> <<>>, transcriber |-> c.transcriber,
          stringset_index |-> 0]
    ELSE ReplaceFinish(_insert(c, parsed, is_real_stringset).c)

\* _replace_translations from the construction of the Transcriber on
ReplaceWith(transcriber, stringset, is_real_stringset) ==
    ReplaceParsed(CompileState(transcriber, stringset),
                  DumbJson(transcriber.source, 0), is_real_stringset)

\* JsonHandler._replace_translations
_replace_translations(template, stringset, is_real_stringset) ==
    ReplaceWith(Transcriber(template), stringset, is_real_stringset)

\* The five searches of _clean_empties, in the order of the loop: the
\* character that opens the match, the one that closes it after \s*, and the
\* one that is kept
EmptyPatterns == << <<"{", ",", "{">>, <<",", "}", "}">>, <<"[", ",", "[">>,
                    <<",", "]", "]">>, <<",", ",", ",">> >>

\* re.search of  first \s* second : the start of the leftmost match, or -1
MatchStart(compiled, first, second) ==
    LeastOr({i \in 0..(Len(compiled) - 1) :
                /\ compiled[i + 1] = first
                /\ At(compiled, SkipChars(compiled, i + 1, Whitespace)) = second},
            -1)

\* C20 mutant: the loop without its fifth search (two commas)
FirstOfFourPatterns(compiled) ==
    LeastOr({k \in 1..4 :
                MatchStart(compiled, EmptyPatterns[k][1], EmptyPatterns[k][2]) >= 0},
            0)

\* The first search of the loop that matches, or 0
FirstPattern(compiled) ==
    LeastOr({k \in 1..Len(EmptyPatterns) :
                MatchStart(compiled, EmptyPatterns[k][1], EmptyPatterns[k][2]) >= 0},
            0)

\* compiled[:match.start()] + kept + compiled[match.end():]
Collapse(compiled, start, kept) ==
    Slice(compiled, 0, start) \o <<kept>>
    \o SliceFrom(compiled, SkipChars(compiled, start + 1, Whitespace) + 1)

RECURSIVE _clean_empties(_)
\* One turn of the loop of _clean_empties, the k-th search having matched
CleanPattern(compiled, k) ==
    IF k = 0 THEN compiled
    ELSE _clean_empties(
             Collapse(compiled,
                      MatchStart(compiled, EmptyPatterns[k][1], EmptyPatterns[k][2]),
                      EmptyPatterns[k][3]))

\* JsonHandler._clean_empties
_clean_empties(compiled) == CleanPattern(compiled, FirstPattern(compiled))

\* C29 mutant: the stand-in built without the pluralized flag
FakeStringUnflagged(openstring) ==
    OpenString(openstring.key, template_replacement(openstring),
               openstring.order, FALSE, <<>>)

\* The stand-in of compile's first pass: the placeholder as the string
FakeString(openstring) ==
    OpenString(openstring.key, template_replacement(openstring),
               openstring.order, openstring.pluralized, <<>>)

\* What compile returns or raises, with both passes for observation
CompileReturn(first, new_template, second) ==
    [raised       |-> first.raised \/ second.raised,
     text         |-> IF first.raised \/ second.raised THEN <<>> ELSE second.text,
     new_template |-> new_template,
     first        |-> first,
     second       |-> second]

\* return self._replace_translations(new_template, stringset, True)
CompileCleaned(stringset, first, new_template) ==
    CompileReturn(first, new_template,
                  _replace_translations(new_template, stringset, TRUE))

\* new_template = self._clean_empties(new_template)
CompileFirst(stringset, first) ==
    IF first.raised THEN CompileReturn(first, <<>>, first)
    ELSE CompileCleaned(stringset, first, _clean_empties(first.text))

\* JsonHandler.compile(template, stringset)
compile(template, stringset) ==
    CompileFirst(stringset,
                 _replace_translations(
                     template,
                     [i \in 1..Len(stringset) |-> FakeString(stringset[i])],
                     FALSE))

\* --------------------------------------------------------------------------
\* The JSON documents of the model
\* --------------------------------------------------------------------------

\* Items per container
MaxItems == 2

JsonKeys == {<<"a">>, <<"b">>}

\* A pluralized value whose groups are spaced as serialize_pluralized_string
\* spaces them, and one whose groups are not
PluralText == <<"{", "n", ",", " ", "p", "l", "u", "r", "a", "l", ",", " ",
                "o", "n", "e", " ", "{", "x", "}", " ",
                "o", "t", "h", "e", "r", " ", "{", "y", "}", "}">>

PluralTight == <<"{", "n", ",", "p", "l", "u", "r", "a", "l", ",",
                 "o", "n", "e", "{", "x", "}", "}">>

Quoted(text) == <<"\"">> \o text \o <<"\"">>

\* The scalar values of nested containers: their source text
NestedLeaves == {Quoted(<<"x">>), Quoted(<<>>), <<"1">>}

\* The scalar values of the root container
RootLeaves == NestedLeaves \cup {Quoted(<<" ">>), Quoted(PluralText),
                                 Quoted(PluralTight)}

\* The key sequences of a dict of n items (the first key is fixed: the
\* handler treats all keys alike)
KeySeqs(n) == {ks \in [1..n -> JsonKeys] : n = 0 \/ ks[1] = <<"a">>}

\* All sequences of at most MaxItems elements of S
SeqsUpTo(S) == UNION {[1..n -> S] : n \in 0..MaxItems}

RECURSIVE JoinWith(_, _)
\* sep.join(texts)
JoinWith(texts, sep) ==
    IF texts = <<>> THEN <<>>
    ELSE IF Len(texts) = 1 THEN texts[1]
    ELSE texts[1] \o sep \o JoinWith(Tail(texts), sep)

\* The source text of a dict with the given keys and value texts
DictText(keys, values, sep) ==
    <<"{">> \o JoinWith([i \in 1..Len(values) |->
                            Quoted(keys[i]) \o <<":", " ">> \o values[i]], sep)
            \o <<"}">>

\* The source text of a list with the given value texts
ListText(values, sep) == <<"[">> \o JoinWith(values, sep) \o <<"]">>

\* The texts of all containers whose items are drawn from `values`
ContainerTexts(values, sep) ==
    {ListText(v, sep) : v \in SeqsUpTo(values)}
    \cup UNION {{DictText(ks, v, sep) : ks \in KeySeqs(Len(v))} :
                   v \in SeqsUpTo(values)}

\* The item separators of the documents
Separators == {<<",", " ">>, <<",", "\n">>, <<",", "\r", "\n">>}

\* Well-formed JSON documents: a root container of scalars and of containers
\* of scalars
JsonDocs ==
    UNION {ContainerTexts(RootLeaves \cup ContainerTexts(NestedLeaves, sep), sep) :
              sep \in Separators}

\* --------------------------------------------------------------------------
\* The JSON handler, run on every document
\* --------------------------------------------------------------------------

\* Nothing returned yet
NotYet == [raised |-> FALSE]

RECURSIVE Without(_, _, _)
\* s with the entries whose positions are in `deleted` taken out
Without(s, deleted, i) ==
    IF i > Len(s) THEN <<>>
    ELSE (IF i \in deleted THEN <<>> ELSE <<s[i]>>) \o Without(s, deleted, i + 1)

\* The permutations of 1..n
Orderings(n) == {f \in [1..n -> 1..n] : \A i, j \in 1..n : f[i] = f[j] => i = j}

JsonInit ==
    /\ handler = "json"
    /\ pc = "start"
    /\ document \in JsonDocs
    /\ parse_result = NotYet
    /\ given = <<>>
    /\ compile_result = NotYet

\* template, stringset = JsonHandler().parse(content)
JsonParse ==
    /\ handler = "json"
    /\ pc = "start"
    /\ parse_result' = parse(document)
    /\ pc' = "parsed"
    /\ UNCHANGED <<handler, document, given, compile_result>>

\* JsonHandler().compile(template, stringset) with some entries of the
\* parse stringset deleted (none included), the rest in their order
JsonCompileTrimmed ==
    /\ handler = "json"
    /\ pc = "parsed"
    /\ ~parse_result.raised
    /\ \E deleted \in SUBSET (1..Len(parse_result.stringset)) :
          /\ given' = Without(parse_result.stringset, deleted, 1)
          /\ compile_result' = compile(parse_result.template, given')
    /\ pc' = "compiled"
    /\ UNCHANGED <<handler, document, parse_result>>

\* JsonHandler().compile(template, stringset) with the whole parse
\* stringset in another order
JsonCompilePermuted ==
    /\ handler = "json"
    /\ pc = "parsed"
    /\ ~parse_result.raised
    /\ \E p \in Orderings(Len(parse_result.stringset)) :
          /\ \E i \in DOMAIN p : p[i] # i
          /\ given' = [i \in DOMAIN p |-> parse_result.stringset[p[i]]]
          /\ compile_result' = compile(parse_result.template, given')
    /\ pc' = "compiled"
    /\ UNCHANGED <<handler, document, parse_result>>

JsonNext == JsonParse \/ JsonCompileTrimmed \/ JsonCompilePermuted

JsonSpec == JsonInit /\ [][JsonNext]_vars

\* --------------------------------------------------------------------------
\* LxmlAndroidHandler (formats/lxml_android.py)
\*
\* lxml is modelled by what it does to the tree: a document is the text
\* before `<resources` and the children of the root, each an element with
\* its tag, its `name` or `quantity` attribute, its inner text and its child
\* elements.  Iterating an element while replacing or removing the current
\* child visits the children the element had when the loop began.  The
\* documents hold no comments and no `translatable` or `product` attributes,
\* so last_comment stays "" and context is "".
\* --------------------------------------------------------------------------

\* An attribute that the element does not have
Absent == <<"None">>

\* An element of the tree
Element(tag, name, quantity, text, items) ==
    [tag |-> tag, name |-> name, quantity |-> quantity, text |-> text, items |-> items]

\* The handler's state while parsing: self.root's children, the stringset
\* of parse, the next value of self._order, and the exception raised
AndroidParseState(root) ==
    [root |-> root, stringset |-> <<>>, order |-> 0, error |-> NoError]

\* ParseError about the i-th child of the root
AndroidRaised(a, kind, i) == [a EXCEPT !.error = RaiseError(kind, <<>>, i)]

\* new_element.text = string.template_replacement; self.root.replace(...);
\* stringset.append(string)
StringTagged(a, i, element, string) ==
    [a EXCEPT !.root[i]   = [element EXCEPT !.text = template_replacement(string)],
              !.stringset = Append(@, string),
              !.order     = @ + 1]

\* LxmlAndroidHandler._handle_string_tag, with parse's append (lines 37-40)
_handle_string_tag(a, i, element) ==
    IF element.name = Absent
    THEN AndroidRaised(a, "ParseError: 'string' tag does not have a 'name'", i)
    ELSE IF Strip(element.text) = <<>> THEN a
    ELSE StringTagged(a, i, element,
                      OpenString(element.name, element.text, a.order, FALSE, <<>>))

\* "{}[{}]".format(name, next(position_count))
ArrayItemKey(name, position) == name \o <<"[">> \o IndexText(position) \o <<"]">>

RECURSIVE ArrayItems(_, _, _, _, _)
\* new_item_element.text = string.template_replacement; yield string
ArrayItemTagged(a, i, new_array_element, k, position_count, string) ==
    ArrayItems([a EXCEPT !.stringset = Append(@, string), !.order = @ + 1], i,
               [new_array_element EXCEPT
                   !.items[k].text = template_replacement(string)],
               k + 1, position_count + 1)

\* The loop of _handle_string_array_tag from the k-th item on, then
\* self.root.replace(array_element, new_array_element)
ArrayItems(a, i, new_array_element, k, position_count) ==
    IF k > Len(new_array_element.items)
    THEN [a EXCEPT !.root[i] = new_array_element]
    ELSE IF Strip(new_array_element.items[k].text) = <<>>
    THEN ArrayItems(a, i, new_array_element, k + 1, position_count)
    ELSE ArrayItemTagged(a, i, new_array_element, k, position_count,
                         OpenString(ArrayItemKey(new_array_element.name, position_count),
                                    new_array_element.items[k].text, a.order,
                                    FALSE, <<>>))

\* LxmlAndroidHandler._handle_string_array_tag, with parse's appends
_handle_string_array_tag(a, i, array_element) ==
    IF array_element.name = Absent
    THEN AndroidRaised(a, "ParseError: 'string-array' tag does not have a 'name'", i)
    ELSE ArrayItems(a, i, array_element, 1, 0)

\* `items` with `text` as the text of each
Retexted(items, text) == [k \in DOMAIN items |-> [items[k] EXCEPT !.text = text]]

\* The second pass of _handle_plurals_tag: only the rule=5 items are kept
PluralsTagged(a, i, plurals_element, string) ==
    [a EXCEPT !.root[i]   = [plurals_element EXCEPT !.items =
                                Retexted(SelectSeq(@, LAMBDA item :
                                             get_rule_number(item.quantity) = 5),
                                         template_replacement(string))],
              !.stringset = Append(@, string),
              !.order     = @ + 1]

\* if not strings: return None
PluralsCollected(a, i, plurals_element, strings) ==
    IF DOMAIN strings = {} THEN a
    ELSE PluralsTagged(a, i, plurals_element,
                       OpenString(plurals_element.name, strings, a.order, TRUE, <<>>))

RECURSIVE PluralItems(_, _, _, _, _)
\* The first loop of _handle_plurals_tag from the k-th item on
PluralItems(a, i, plurals_element, k, strings) ==
    IF k > Len(plurals_element.items)
    THEN PluralsCollected(a, i, plurals_element, strings)
    ELSE IF plurals_element.items[k].quantity = Absent
    THEN AndroidRaised(a, "ParseError: 'item' tag does not have a 'quantity'", i)
    ELSE IF get_rule_number(plurals_element.items[k].quantity) < 0
    THEN AndroidRaised(a, "ParseError: 'quantity' has an invalid value", i)
    ELSE IF Strip(plurals_element.items[k].text) = <<>> THEN a
    ELSE PluralItems(a, i, plurals_element, k + 1,
                     (get_rule_number(plurals_element.items[k].quantity)
                          :> plurals_element.items[k].text) @@ strings)

\* LxmlAndroidHandler._handle_plurals_tag, with parse's append
_handle_plurals_tag(a, i, plurals_element) ==
    IF plurals_element.name = Absent
    THEN AndroidRaised(a, "ParseError: 'plurals' tag does not have a 'name'", i)
    ELSE PluralItems(a, i, plurals_element, 1, <<>>)

\* The branches of the loop of parse on element.tag
HandleElement(a, i, element) ==
    IF element.tag = "string" THEN _handle_string_tag(a, i, element)
    ELSE IF element.tag = "string-array" THEN _handle_string_array_tag(a, i, element)
    ELSE IF element.tag = "plurals" THEN _handle_plurals_tag(a, i, element)
    ELSE a

RECURSIVE HandleElements(_, _)
\* for element in self.root, from the i-th child on
HandleElements(a, i) ==
    IF i > Len(a.root) \/ a.error # NoError THEN a
    ELSE HandleElements(HandleElement(a, i, a.root[i]), i + 1)

\* What parse returns or raises
AndroidParseReturn(prefix, a) ==
    [raised    |-> a.error # NoError,
     error     |-> a.error,
     template  |-> [prefix |-> prefix, root |-> a.root],
     stringset |-> IF a.error = NoError THEN a.stringset ELSE <<>>]

\* LxmlAndroidHandler.parse(content)
LxmlAndroidHandler_parse(content) ==
    AndroidParseReturn(content.prefix,
                       HandleElements(AndroidParseState(content.root), 1))

\* The handler's state while compiling: the children the root keeps, the
\* stringset and how many entries next(self._stringset) has handed out, the
\* exception raised, and for observation the keys of the entries substituted
AndroidCompileState(stringset) ==
    [out |-> <<>>, stringset |-> stringset, taken |-> 0, error |-> "none",
     substituted |-> <<>>]

\* next(self._stringset) has handed out one more entry
Taken(c) == [c EXCEPT !.taken = @ + 1]

\* The branches of _compile_string on the entry that next() returned
CompileStringWith(c, element, next_string) ==
    IF template_replacement(next_string) = element.text
    THEN [c EXCEPT !.out = Append(@, [element EXCEPT !.text = next_string.string]),
                   !.substituted = Append(@, next_string.key)]
    ELSE c

\* LxmlAndroidHandler._compile_string
_compile_string(c, element) ==
    IF c.taken < Len(c.stringset)
    THEN CompileStringWith(Taken(c), element, c.stringset[c.taken + 1])
    ELSE c

\* if len(new_array_element) > 0: replace, else: remove
ArrayCompiled(c, array_element, new_items) ==
    IF Len(new_items) > 0
    THEN [c EXCEPT !.out = Append(@, [array_element EXCEPT !.items = new_items])]
    ELSE c

RECURSIVE CompileArrayItems(_, _, _, _, _, _)
\* The branches of the loop of _compile_string_array on next_string
CompileArrayItem(c, array_element, k, next_string, new_items, found) ==
    CompileArrayItems(
        IF found THEN [c EXCEPT !.substituted = Append(@, next_string.key)] ELSE c,
        array_element, k + 1, TRUE, next_string,
        IF found
        THEN Append(new_items, [array_element.items[k] EXCEPT !.text = next_string.string])
        ELSE new_items)

\* The loop of _compile_string_array from the k-th item on.  On StopIteration
\* the statement `next_string is None` assigns nothing: next_string keeps
\* the entry of the previous iteration, or is unbound in the first one
CompileArrayItems(c, array_element, k, bound, next_string, new_items) ==
    IF k > Len(array_element.items) THEN ArrayCompiled(c, array_element, new_items)
    ELSE IF c.taken >= Len(c.stringset) /\ ~bound
    THEN [c EXCEPT !.error = "UnboundLocalError"]
    ELSE CompileArrayItem(
             IF c.taken < Len(c.stringset) THEN Taken(c) ELSE c,
             array_element, k,
             IF c.taken < Len(c.stringset) THEN c.stringset[c.taken + 1]
             ELSE next_string,
             new_items,
             template_replacement(IF c.taken < Len(c.stringset)
                                  THEN c.stringset[c.taken + 1] ELSE next_string)
                 = array_element.items[k].text)

\* LxmlAndroidHandler._compile_string_array
_compile_string_array(c, array_element) ==
    CompileArrayItems(c, array_element, 1, FALSE, <<>>, <<>>)

RECURSIVE RuleItems(_, _, _)
\* One item per rule of `rules`, in ascending order of the rules
RuleItemsFrom(item_element, strings, rules, rule) ==
    <<[item_element EXCEPT !.quantity = get_rule_string(rule),
                           !.text = strings[rule]]>>
    \o RuleItems(item_element, strings, rules \ {rule})

\* for rule, string in sorted(next_string.string.items(), ...)
RuleItems(item_element, strings, rules) ==
    IF rules = {} THEN <<>>
    ELSE RuleItemsFrom(item_element, strings, rules, LeastOr(rules, 0))

\* The branches of _compile_plurals on the entry that next() returned
CompilePluralsWith(c, plurals_element, next_string) ==
    IF template_replacement(next_string) = plurals_element.items[1].text
    THEN [c EXCEPT !.out = Append(@, [plurals_element EXCEPT !.items =
                                         RuleItems(plurals_element.items[1],
                                                   next_string.string,
                                                   DOMAIN next_string.string)]),
                   !.substituted = Append(@, next_string.key)]
    ELSE c

\* LxmlAndroidHandler._compile_plurals
_compile_plurals(c, plurals_element) ==
    IF Len(plurals_element.items) # 1 THEN [c EXCEPT !.error = "AssertionError"]
    ELSE IF c.taken < Len(c.stringset)
    THEN CompilePluralsWith(Taken(c), plurals_element, c.stringset[c.taken + 1])
    ELSE c

\* The branches of the loop of compile on element.tag
CompileElement(c, element) ==
    IF element.tag = "string" THEN _compile_string(c, element)
    ELSE IF element.tag = "string-array" THEN _compile_string_array(c, element)
    ELSE IF element.tag = "plurals" THEN _compile_plurals(c, element)
    ELSE [c EXCEPT !.out = Append(@, element)]

RECURSIVE CompileElements(_, _, _)
\* for element in self.root, from the i-th child on
CompileElements(c, root, i) ==
    IF i > Len(root) \/ c.error # "none" THEN c
    ELSE CompileElements(CompileElement(c, root[i]), root, i + 1)

\* What compile returns or raises
AndroidCompileReturn(prefix, c) ==
    [raised      |-> c.error # "none",
     error       |-> c.error,
     text        |-> [prefix |-> prefix, root |-> IF c.error = "none" THEN c.out ELSE <<>>],
     taken       |-> c.taken,
     substituted |-> c.substituted]

\* LxmlAndroidHandler.compile(template, stringset)
LxmlAndroidHandler_compile(template, stringset) ==
    AndroidCompileReturn(template.prefix,
                         CompileElements(AndroidCompileState(stringset),
                                         template.root, 1))

\* --------------------------------------------------------------------------
\* The Android documents of the model, and the handler run on each
\* --------------------------------------------------------------------------

\* Children of `resources` per document
MaxElements == 3

Item(quantity, text) == Element("item", Absent, quantity, text, <<>>)

\* `string` tags: two names, a blank one, one without a name
StringElements ==
    {Element("string", <<"a">>, Absent, <<"x">>, <<>>),
     Element("string", <<"b">>, Absent, <<"y">>, <<>>),
     Element("string", <<"b">>, Absent, <<" ">>, <<>>),
     Element("string", Absent, Absent, <<"x">>, <<>>)}

\* `string-array` tags: no item, one, two, and a blank item before another
ArrayElements ==
    {Element("string-array", <<"c">>, Absent, <<>>, items) :
        items \in {<<>>,
                   <<Item(Absent, <<"x">>)>>,
                   <<Item(Absent, <<"x">>), Item(Absent, <<"y">>)>>,
                   <<Item(Absent, <<>>), Item(Absent, <<"y">>)>>}}

\* `plurals` tags: one and other, other alone, one alone, a blank item
PluralsElements ==
    {Element("plurals", <<"d">>, Absent, <<>>, items) :
        items \in {<<Item(<<"o", "n", "e">>, <<"x">>),
                     Item(<<"o", "t", "h", "e", "r">>, <<"y">>)>>,
                   <<Item(<<"o", "t", "h", "e", "r">>, <<"y">>)>>,
                   <<Item(<<"o", "n", "e">>, <<"x">>)>>,
                   <<Item(<<"o", "n", "e">>, <<>>),
                     Item(<<"o", "t", "h", "e", "r">>, <<"y">>)>>}}

\* The documents: an XML declaration, then up to MaxElements children
AndroidDocs ==
    {[prefix |-> <<"<?xml?>", "\n">>, root |-> root] :
        root \in UNION {[1..n -> StringElements \cup ArrayElements \cup PluralsElements] :
                           n \in 0..MaxElements}}

AndroidInit ==
    /\ handler = "android"
    /\ pc = "start"
    /\ document \in AndroidDocs
    /\ parse_result = NotYet
    /\ given = <<>>
    /\ compile_result = NotYet

\* template, stringset = LxmlAndroidHandler().parse(content)
AndroidParse ==
    /\ handler = "android"
    /\ pc = "start"
    /\ parse_result' = LxmlAndroidHandler_parse(document)
    /\ pc' = "parsed"
    /\ UNCHANGED <<handler, document, given, compile_result>>

\* LxmlAndroidHandler().compile(template, stringset) with some entries of
\* the parse stringset deleted (none and all included), the rest in order
AndroidCompile ==
    /\ handler = "android"
    /\ pc = "parsed"
    /\ ~parse_result.raised
    /\ \E deleted \in SUBSET (1..Len(parse_result.stringset)) :
          /\ given' = Without(parse_result.stringset, deleted, 1)
          /\ compile_result' = LxmlAndroidHandler_compile(parse_result.template, given')
    /\ pc' = "compiled"
    /\ UNCHANGED <<handler, document, parse_result>>

AndroidNext == AndroidParse \/ AndroidCompile

AndroidSpec == AndroidInit /\ [][AndroidNext]_vars

\* --------------------------------------------------------------------------
\* HTMLHandler (formats/html.py)
\*
\* lxml.html is modelled by what it does to documents that are a run of
\* `<p>text</p>` elements: root.xpath('//p') yields them in document order,
\* p.text is the text between the tags, and tree.getpath(p) numbers them.
\* --------------------------------------------------------------------------

\* tree.getpath(p) of the paragraph at 0-based `index`
ParagraphPath(index) ==
    <<"/", "d", "i", "v", "/", "p", "[">> \o IndexText(index + 1) \o <<"]">>

RECURSIVE ParagraphsFrom(_, _, _)
\* The paragraph that opens at `open`, then the ones after it
ParagraphAt(content, open, stringset) ==
    IF open < 0 THEN stringset
    ELSE ParagraphsFrom(content, Find(content, <<"<", "/", "p", ">">>, open),
                        Append(stringset,
                               OpenString(ParagraphPath(Len(stringset)),
                                          Slice(content, open + 3,
                                                Find(content, <<"<", "/", "p", ">">>, open)),
                                          -1, FALSE, <<>>)))

\* [OpenString(tree.getpath(p), p.text) for p in root.xpath('//p')] from
\* offset `from` on; order is left at its default, written -1
ParagraphsFrom(content, from, stringset) ==
    ParagraphAt(content, Find(content, <<"<", "p", ">">>, from), stringset)

RECURSIVE HtmlExtract(_, _, _, _, _)
\* The else branch of the loop of parse: `position` is where the string was
\* found in content, or -1 for ValueError (break)
HtmlExtractAt(transcriber, content, stringset, i, position) ==
    IF position < 0 THEN transcriber
    ELSE HtmlExtract(add(skip(copy_until(transcriber, position),
                              Len(stringset[i].string)),
                         template_replacement(stringset[i])),
                     content, stringset, i + 1,
                     position + Len(stringset[i].string) + 1)

\* The loop of parse from the i-th string of the stringset on
HtmlExtract(transcriber, content, stringset, i, search_from) ==
    IF i > Len(stringset) THEN transcriber
    ELSE HtmlExtractAt(transcriber, content, stringset, i,
                       Find(content, stringset[i].string, search_from))

\* What the HTML handler returns, with the Transcriber for its ptrs
HtmlReturn(transcriber, stringset) ==
    [raised      |-> FALSE,
     template    |-> get_destination(transcriber),
     stringset   |-> stringset,
     transcriber |-> transcriber]

\* parse once the stringset is collected
HtmlParseWith(content, stringset) ==
    HtmlReturn(copy_until(HtmlExtract(Transcriber(content), content, stringset, 1, 0),
                          Len(content)),
               stringset)

\* HTMLHandler.parse(content).  position and len(content) are offsets into
\* content, not into the normalized transcriber.source
HTMLHandler_parse(content) == HtmlParseWith(content, ParagraphsFrom(content, 0, <<>>))

RECURSIVE HtmlInsert(_, _, _, _)
\* The else branch of the loop of compile; search_from stays 0
HtmlInsertAt(transcriber, template, stringset, i, position) ==
    IF position < 0 THEN transcriber
    ELSE HtmlInsert(add(skip(copy_until(transcriber, position),
                             Len(template_replacement(stringset[i]))),
                        stringset[i].string),
                    template, stringset, i + 1)

\* The loop of compile from the i-th string of the stringset on
HtmlInsert(transcriber, template, stringset, i) ==
    IF i > Len(stringset) THEN transcriber
    ELSE HtmlInsertAt(transcriber, template, stringset, i,
                      Find(template, template_replacement(stringset[i]), 0))

\* HTMLHandler.compile(template, stringset)
HTMLHandler_compile(template, stringset) ==
    HtmlReturn(copy_until(HtmlInsert(Transcriber(template), template, stringset, 1),
                          Len(template)),
               stringset)

\* Paragraphs per document
MaxParagraphs == 3

\* <p>text</p>
Paragraph(text) == <<"<", "p", ">">> \o text \o <<"<", "/", "p", ">">>

\* The documents: one to MaxParagraphs paragraphs, on one line or on
\* lines that end in "\n" or in "\r\n"
HtmlDocs ==
    {JoinWith([i \in DOMAIN texts |-> Paragraph(texts[i])], sep) :
        texts \in UNION {[1..n -> {<<"x">>, <<"y">>}] : n \in 1..MaxParagraphs},
        sep \in {<<>>, <<"\n">>, <<"\r", "\n">>}}

HtmlInit ==
    /\ handler = "html"
    /\ pc = "start"
    /\ document \in HtmlDocs
    /\ parse_result = NotYet
    /\ given = <<>>
    /\ compile_result = NotYet

\* template, stringset = HTMLHandler().parse(content)
HtmlParse ==
    /\ handler = "html"
    /\ pc = "start"
    /\ parse_result' = HTMLHandler_parse(document)
    /\ pc' = "parsed"
    /\ UNCHANGED <<handler, document, given, compile_result>>

\* HTMLHandler().compile(template, stringset) with the parse stringset in
\* any order, its own included
HtmlCompile ==
    /\ handler = "html"
    /\ pc = "parsed"
    /\ \E p \in Orderings(Len(parse_result.stringset)) :
          /\ given' = [i \in DOMAIN p |-> parse_result.stringset[p[i]]]
          /\ compile_result' = HTMLHandler_compile(parse_result.template, given')
    /\ pc' = "compiled"
    /\ UNCHANGED <<handler, document, parse_result>>

HtmlNext == HtmlParse \/ HtmlCompile

HtmlSpec == HtmlInit /\ [][HtmlNext]_vars

\* --------------------------------------------------------------------------
\* Properties of the JSON handler
\* --------------------------------------------------------------------------

\* content as the Transcriber holds it
Normalized(content) == ReplaceAll(content, <<"\r", "\n">>, <<"\n">>)

RECURSIVE WalkItems(_, _, _)
\* The dict pairs and list items of a scanned container from the i-th on, in
\* document order, nested ones included, each with its dotted key
WalkItems(parsed, nest, i) ==
    IF i > Len(parsed.items) THEN <<>>
    ELSE LET item == parsed.items[i]
             key  == ItemKey(parsed.type, nest, item.key, i - 1)
         IN  <<[key |-> key, of |-> parsed.type, key_position |-> item.key_position,
                value |-> item.value, value_position |-> item.value_position]>>
             \o (IF item.value.type \in {"dict", "list"}
                 THEN WalkItems(item.value, key, 1) ELSE <<>>)
             \o WalkItems(parsed, nest, i + 1)

\* All pairs and items of a document
Walk(content) == WalkItems(DumbJson(Normalized(content), 0), NoNest, 1)

\* The pairs and items that hold a number, a boolean, null or a string
ScalarCount(content) ==
    Cardinality({i \in DOMAIN Walk(content) :
                    Walk(content)[i].value.type \in {"str", "other"}})

\* The positions in `walk` of the string values that parse extracts
Extractable(walk) ==
    {i \in DOMAIN walk : walk[i].value.type = "str" /\ Strip(walk[i].value.text) # <<>>}

\* The positions in `walk` of the blank string values
Blank(walk) ==
    {i \in DOMAIN walk : walk[i].value.type = "str" /\ Strip(walk[i].value.text) = <<>>}

\* The positions in `walk` of the dict keys that an earlier dict key equals
Repeated(walk) ==
    {j \in DOMAIN walk :
        /\ walk[j].of = "dict"
        /\ \E i \in 1..(j - 1) : walk[i].of = "dict" /\ walk[i].key = walk[j].key}

\* `given` holds entries of `stringset` in their relative order
IsTrimmed(stringset, entries) ==
    /\ \A i \in DOMAIN entries : \E j \in DOMAIN stringset : stringset[j] = entries[i]
    /\ \A i \in 1..(Len(entries) - 1) : entries[i].order < entries[i + 1].order

\* `entries` holds the entries of `stringset` in some order
IsPermuted(stringset, entries) ==
    /\ Len(entries) = Len(stringset)
    /\ \A j \in DOMAIN stringset : \E i \in DOMAIN entries : entries[i] = stringset[j]

\* No opening bracket before a comma, no comma before a closing bracket, no
\* two commas in a row, whitespace between them ignored
NoDanglingSeparator(text) ==
    \A k \in 1..Len(EmptyPatterns) :
        MatchStart(text, EmptyPatterns[k][1], EmptyPatterns[k][2]) < 0

\* The cursor of a Transcriber never went back nor past the end of source
CursorInBounds(t) ==
    /\ \A i \in 1..(Len(t.ptrs) - 1) : t.ptrs[i] <= t.ptrs[i + 1]
    /\ \A i \in DOMAIN t.ptrs : t.ptrs[i] <= Len(t.source)

RECURSIVE Restore(_, _, _, _, _)
\* template with the placeholder of each entry from the i-th on replaced by
\* the span of source that the i-th skip passed over
Restore(template, stringset, source, skipped, i) ==
    IF i > Len(stringset) THEN template
    ELSE LET at == Find(template, template_replacement(stringset[i]), 0)
         IN  Slice(template, 0, at)
             \o Slice(source, skipped[i][1], skipped[i][2])
             \o Restore(SliceFrom(template, at + Len(template_replacement(stringset[i]))),
                        stringset, source, skipped, i + 1)

\* text without its whitespace
Squeezed(text) == SelectSeq(text, LAMBDA c : c \notin Whitespace)

\* The span <<from, to>> of source is the whole content of a string value
\* that reads `string`
IsValueSpan(source, span, string) ==
    /\ Slice(source, span[1], span[2]) = string
    /\ At(source, span[1] - 1) = "\""
    /\ At(source, span[2]) = "\""

\* The span <<from, to>> of source is what a plural value holds between its
\* `{ keyword, plural,` prefix (with the whitespace after it) and the brace
\* that closes the envelope
IsPluralSpan(source, span) ==
    /\ Squeezed(Slice(source, RFind(source, <<"\"">>, span[1]) + 1, span[1]))
           = <<"{", "n", ",">> \o PLURAL_ARG \o <<",">>
    /\ At(source, span[1]) \notin Whitespace
    /\ Slice(source, span[2], span[2] + 2) = <<"}", "\"">>

\* C1 (refuted by the code): compile(parse(doc)) returns exactly doc when
\* the stringset is left unmodified
C1_RoundTrip ==
    (handler = "json" /\ pc = "compiled" /\ given = parse_result.stringset)
        => (~compile_result.raised /\ compile_result.text = document)

\* C2: parse changes no character outside the extracted value spans: the
\* template with every placeholder replaced by the source span it stands for
\* is the normalized source, a regular string's span is the whole content of
\* its value, and a plural's span lies between the `{ keyword, plural,`
\* prefix and the closing brace of the envelope
C2_ParseKeepsTheRest ==
    (handler = "json" /\ pc # "start" /\ ~parse_result.raised)
        => LET t == parse_result.transcriber
               stringset == parse_result.stringset
           IN  /\ Len(t.skipped) = Len(stringset)
               /\ Restore(Normalized(parse_result.template), stringset, t.source,
                          t.skipped, 1) = t.source
               /\ \A i \in DOMAIN stringset :
                     IF stringset[i].pluralized
                     THEN IsPluralSpan(t.source, t.skipped[i])
                     ELSE IsValueSpan(t.source, t.skipped[i], stringset[i].string)

\* C2 witness: a parse that extracted a regular and a pluralized string from
\* a document that also holds a blank string and a line break
C2_Witness ==
    /\ handler = "json" /\ pc = "parsed" /\ ~parse_result.raised
    /\ \E i, j \in DOMAIN parse_result.stringset :
          parse_result.stringset[i].pluralized /\ ~parse_result.stringset[j].pluralized
    /\ Contains(document, <<"\r", "\n">>)
    /\ Contains(document, Quoted(<<>>))

\* C3: parse raises ParseError, returning nothing, whenever two dict keys of
\* the document resolve to the same escaped dotted key, the line reported is
\* the line of the second occurrence, and a stringset that is returned never
\* holds two entries with one key
C3_DuplicateKeyRaises ==
    (handler = "json" /\ pc # "start")
        => LET walk == Walk(document)
           IN  IF Repeated(walk) # {}
               THEN /\ parse_result.raised
                    /\ parse_result.error.kind = "ParseError: Duplicate string key"
                    /\ parse_result.template = <<>>
                    /\ parse_result.stringset = <<>>
                    /\ parse_result.error.line
                           = 1 + Count(Slice(Normalized(document), 0,
                                             walk[LeastOr(Repeated(walk), 0)].key_position),
                                       "\n")
               ELSE /\ ~parse_result.raised
                    /\ \A i, j \in DOMAIN parse_result.stringset :
                          parse_result.stringset[i].key = parse_result.stringset[j].key
                              => i = j

\* C3 witness: a parse that raised for a key of a nested dict that repeats
\* on the second line of the document
C3_Witness ==
    /\ handler = "json" /\ pc = "parsed" /\ parse_result.raised
    /\ parse_result.error.line = 2
    /\ Contains(parse_result.error.key, <<".">>)

\* C5 (refuted by the code): compile with some entries deleted raises
\* nothing, leaves no dangling separator and lacks exactly the pairs and
\* items of the deleted entries
C5_OnlyDeletedRemoved ==
    (handler = "json" /\ pc = "compiled" /\ IsTrimmed(parse_result.stringset, given))
        => /\ ~compile_result.raised
           /\ NoDanglingSeparator(compile_result.text)
           /\ ScalarCount(compile_result.text)
                  = ScalarCount(document) - (Len(parse_result.stringset) - Len(given))

\* C6 (refuted by the code): compile returns the same text for every
\* permutation of the stringset as for the stringset in its original order
C6_PermutationInvariant ==
    (handler = "json" /\ pc = "compiled" /\ IsPermuted(parse_result.stringset, given))
        => compile_result.text
               = compile(parse_result.template, parse_result.stringset).text

\* C9: parse never extracts a blank string value: no entry of the stringset
\* carries its key, the order counter counts the other string values only,
\* and no skip touches its text
C9_BlankNeverExtracted ==
    (handler = "json" /\ pc # "start" /\ ~parse_result.raised)
        => LET walk == Walk(document)
           IN  /\ parse_result.order = Cardinality(Extractable(walk))
               /\ Len(parse_result.stringset) = Cardinality(Extractable(walk))
               /\ \A b \in Blank(walk) :
                     /\ \A i \in DOMAIN parse_result.stringset :
                           parse_result.stringset[i].key # walk[b].key
                     /\ \A i \in DOMAIN parse_result.transcriber.skipped :
                           LET span == parse_result.transcriber.skipped[i]
                           IN  \/ span[2] < walk[b].value_position
                               \/ span[1] > walk[b].value_position
                                               + Len(walk[b].value.text)

\* C9 witness: a parse that extracted a string from a document that holds an
\* empty and a whitespace-only string, one of them an array item
C9_Witness ==
    /\ handler = "json" /\ pc = "parsed" /\ ~parse_result.raised
    /\ Len(parse_result.stringset) > 0
    /\ \E a, b \in Blank(Walk(document)) :
          /\ Walk(document)[a].value.text = <<>>
          /\ Walk(document)[a].of = "list"
          /\ Walk(document)[b].value.text = <<" ">>

\* --------------------------------------------------------------------------
\* Properties of the Android and the HTML handler
\* --------------------------------------------------------------------------

\* The units of a template: its `string` tags, the items of its
\* `string-array` tags and its `plurals` tags
UnitCount(root) ==
    Cardinality({i \in DOMAIN root : root[i].tag \in {"string", "plurals"}})
    + Cardinality({<<i, k>> \in (DOMAIN root) \X (1..MaxElements) :
                      root[i].tag = "string-array" /\ k <= Len(root[i].items)})

\* The Transcribers of the handler calls made so far
Transcribers ==
    (IF pc # "start" THEN {parse_result.transcriber} ELSE {})
    \cup (IF pc # "compiled" \/ compile_result.raised THEN {}
          ELSE IF handler = "json"
          THEN {compile_result.first.transcriber, compile_result.second.transcriber}
          ELSE {compile_result.transcriber})

\* C4 (refuted by the code): a stringset that LxmlAndroidHandler.parse
\* returns never holds two OpenStrings with the same key
C4_AndroidKeysUnique ==
    (handler = "android" /\ pc # "start" /\ ~parse_result.raised)
        => \A i, j \in DOMAIN parse_result.stringset :
              parse_result.stringset[i].key = parse_result.stringset[j].key => i = j

\* C7 (refuted by the code): LxmlAndroidHandler.compile substitutes every
\* entry of a stringset that had some entries deleted, each into its own unit
C7_RemainingSubstituted ==
    (handler = "android" /\ pc = "compiled" /\ ~compile_result.raised)
        => compile_result.substituted = [i \in DOMAIN given |-> given[i].key]

\* C8 (refuted by the code): LxmlAndroidHandler.compile raises no error
\* when the stringset runs out before the units of the template do
C8_ExhaustedStringset ==
    (/\ handler = "android" /\ pc = "compiled"
     /\ \A i \in DOMAIN parse_result.template.root :
           parse_result.template.root[i].tag = "plurals"
               => Len(parse_result.template.root[i].items) = 1
     /\ Len(given) < UnitCount(parse_result.template.root))
        => ~compile_result.raised

\* C10 (refuted by the code): in JsonHandler and HTMLHandler, parse and
\* compile never move the Transcriber cursor back nor past len(source)
C10_CursorInBounds ==
    handler \in {"json", "html"} => \A t \in Transcribers : CursorInBounds(t)


\* --------------------------------------------------------------------------
\* A Transcriber driven call by call (transcribers.py)
\*
\* document is the source handed to Transcriber(), compile_result the
\* Transcriber now, parse_result the Transcriber before its last call and
\* given the calls made so far.  The cursor calls are the forward, in-bounds
\* ones; remove_section is called where a SectionStart stands at `place`
\* (_find_last_section_start returns None otherwise).
\* --------------------------------------------------------------------------

\* Calls per Transcriber
MaxCalls == 5

\* Newline-separated pieces per source
MaxPieces == 2

\* The sources: up to MaxPieces pieces, each a letter, "\n" or "\r\n"
TranscriberSources ==
    {JoinWith(pieces, <<>>) :
        pieces \in UNION {[1..n -> {<<"a">>, <<"\n">>, <<"\r", "\n">>}] :
                             n \in 1..MaxPieces}}

\* One call, as it is logged in `given`
Call(name, argument) == [name |-> name, argument |-> argument]

\* The state after `call` took the Transcriber to `after`
Called(call, after) ==
    /\ handler = "transcriber"
    /\ pc \in {"start", "parsed"}
    /\ Len(given) < MaxCalls
    /\ pc' = "parsed"
    /\ parse_result' = compile_result
    /\ compile_result' = after
    /\ given' = Append(given, call)
    /\ UNCHANGED <<handler, document>>

TranscriberInit ==
    /\ handler = "transcriber"
    /\ pc = "start"
    /\ document \in TranscriberSources
    /\ parse_result = Transcriber(document)
    /\ given = <<>>
    /\ compile_result = Transcriber(document)

\* transcriber.copy(offset)
CallCopy ==
    /\ handler = "transcriber"
    /\ \E offset \in 1..(Len(compile_result.source) - compile_result.ptr) :
          Called(Call("copy", offset), copy(compile_result, offset))

\* transcriber.copy_until(end)
CallCopyUntil ==
    /\ handler = "transcriber"
    /\ \E end \in compile_result.ptr..Len(compile_result.source) :
          Called(Call("copy_until", end), copy_until(compile_result, end))

\* transcriber.add(text)
CallAdd ==
    /\ handler = "transcriber"
    /\ \E text \in {<<"x">>, <<"\n">>} :
          Called(Call("add", text), add(compile_result, text))

\* transcriber.skip(offset)
CallSkip ==
    /\ handler = "transcriber"
    /\ \E offset \in 1..(Len(compile_result.source) - compile_result.ptr) :
          Called(Call("skip", offset), skip(compile_result, offset))

\* transcriber.skip_until(end)
CallSkipUntil ==
    /\ handler = "transcriber"
    /\ \E end \in compile_result.ptr..Len(compile_result.source) :
          Called(Call("skip_until", end), skip_until(compile_result, end))

\* transcriber.mark_section_start()
CallMarkSectionStart ==
    /\ handler = "transcriber"
    /\ Called(Call("mark_section_start", 0), mark_section_start(compile_result))

\* transcriber.mark_section_end()
CallMarkSectionEnd ==
    /\ handler = "transcriber"
    /\ Called(Call("mark_section_end", 0), mark_section_end(compile_result))

\* transcriber.remove_section(place)
CallRemoveSection ==
    /\ handler = "transcriber"
    /\ \E place \in 0..1 :
          /\ _find_last_section_start(compile_result, place) >= 0
          /\ Called(Call("remove_section", place), remove_section(compile_result, place))

TranscriberNext ==
    \/ CallCopy \/ CallCopyUntil \/ CallAdd \/ CallSkip \/ CallSkipUntil
    \/ CallMarkSectionStart \/ CallMarkSectionEnd \/ CallRemoveSection

TranscriberSpec == TranscriberInit /\ [][TranscriberNext]_vars


\* --------------------------------------------------------------------------
\* Properties of the Transcriber
\* --------------------------------------------------------------------------

\* The last call made on the Transcriber
LastCall == given[Len(given)]

\* The calls that move the cursor
CursorCalls == {"copy", "copy_until", "skip", "skip_until"}

\* How many entries of destination[from..to] (0-based, inclusive) are `mark`
Marks(destination, from, to, mark) ==
    Cardinality({i \in from..to : destination[i + 1] = mark})

\* The 0-based index of the SectionEnd that closes the section opened at
\* `start`: the first place where as many sections are closed as were
\* opened; the last index when the section is still open
MatchingEnd(destination, start) ==
    LeastOr({j \in start..(Len(destination) - 1) :
                Marks(destination, start, j, SectionStart)
                    = Marks(destination, start, j, SectionEnd)},
            Len(destination) - 1)

\* The text of the chunks that are neither sentinels nor None, in order
ChunkTexts(destination) ==
    JoinWith([i \in DOMAIN destination |->
                 IF destination[i].kind = "chunk" THEN destination[i].text ELSE <<>>],
             <<>>)

\* C11 (refuted by the code): remove_section(place) tombstones the entries
\* from the selected SectionStart through the SectionEnd that closes that
\* very section, nested sections included, and no entry outside that range
C11_RemovesWholeSection ==
    (handler = "transcriber" /\ pc = "parsed" /\ LastCall.name = "remove_section")
        => LET before == parse_result.destination
               start  == _find_last_section_start(parse_result, LastCall.argument)
               end    == MatchingEnd(before, start)
           IN  compile_result.destination
                   = [i \in DOMAIN before |->
                         IF i - 1 >= start /\ i - 1 <= end THEN None ELSE before[i]]

\* C12 (refuted by the code): get_destination() is the text of the chunks
\* that are neither sentinels nor None with "\n" in the detected style, and
\* after the single call copy_until(len(source)) it is the text handed to
\* Transcriber(), line endings included
C12_RenderKeepsText ==
    handler = "transcriber"
        => /\ get_destination(compile_result)
                  = (IF compile_result.newline_type = "DOS"
                     THEN ReplaceAll(ChunkTexts(compile_result.destination),
                                     <<"\n">>, <<"\r", "\n">>)
                     ELSE ChunkTexts(compile_result.destination))
           /\ given = <<Call("copy_until", Len(compile_result.source))>>
                 => get_destination(compile_result) = document

\* C13: after forward, in-bounds cursor calls interleaved with add and the
\* section calls, line_number is 1 plus the number of "\n" in
\* source[0:ptr], and add and the section calls leave ptr and line_number
\* as they were
C13_LineNumberCountsNewlines ==
    handler = "transcriber"
        => /\ line_number(compile_result)
                  = 1 + Count(Slice(compile_result.source, 0, compile_result.ptr), "\n")
           /\ (pc = "parsed" /\ LastCall.name \notin CursorCalls)
                 => /\ compile_result.ptr = parse_result.ptr
                    /\ line_number(compile_result) = line_number(parse_result)

\* C13 witness: a Transcriber on line 3 that skipped and copied and whose
\* last call removed a section
C13_Witness ==
    /\ handler = "transcriber" /\ pc = "parsed"
    /\ line_number(compile_result) = 3
    /\ \E i, j \in DOMAIN given : given[i].name = "skip" /\ given[j].name = "copy"
    /\ LastCall.name = "remove_section"


\* --------------------------------------------------------------------------
\* NewDumbXml (utils/xml.py)
\*
\* A node is scanned the way a recursive iteration (find_descendants with no
\* tags) drives the lazy properties: the constructor reads position and
\* tag; iterating the node reads attributes, text_position and text, builds
\* each child over the same source, lets the consumer iterate the child, and
\* reads the child's end; tail and end are read last.  The result is the
\* node followed by its descendants in the order they are yielded, or the
\* first exception raised.
\* --------------------------------------------------------------------------

\* "<![CDATA["
CDataOpen == <<"<", "!", "[", "C", "D", "A", "T", "A", "[">>

\* "]]>"
CDataClose == <<"]", "]", ">">>

\* NewDumbXml.COMMENT
COMMENT == <<"!", "-", "-">>

\* C27 mutant: the next "<" whatever surrounds it
FindNextLtAnywhere(source, ptr, in_cdata) == ScanTo(source, ptr, {"<"})

RECURSIVE FindNextLt(_, _, _)
\* The loop of _find_next_lt from ptr on
FindNextLt(source, ptr, in_cdata) ==
    IF ptr >= Len(source) THEN Len(source)
    ELSE IF in_cdata
    THEN FindNextLt(source, ptr + 1, ~StartsWithAt(source, CDataClose, ptr))
    ELSE IF At(source, ptr) # "<" THEN FindNextLt(source, ptr + 1, FALSE)
    ELSE IF StartsWithAt(source, CDataOpen, ptr) THEN FindNextLt(source, ptr + 1, TRUE)
    ELSE ptr

\* NewDumbXml._find_next_lt
_find_next_lt(source, start) == FindNextLt(source, start, FALSE)

\* NewDumbXml._find_line_number, ptr left None
_find_line_number(source, position) == Count(Slice(source, 0, position), "\n") + 1

\* A scan that an exception ended
XmlRaised(error, message, line) ==
    [error |-> error, message |-> message, line |-> line, nodes |-> <<>>, end |-> -1]

\* raise DumbXmlSyntaxError(u"... on line {}".format(self._find_line_number()))
DumbXmlSyntaxError(message, source, position) ==
    XmlRaised("DumbXmlSyntaxError", message, _find_line_number(source, position))

\* self.source[ptr] past the end of the source
IndexError == XmlRaised("IndexError", "", 0)

\* The text of a node that has none (self._text = None): no sequence of
\* characters
NoText == <<"None">>

\* A node scanned through: its properties, then its descendants.  A
\* single-tag has text_position -1 and content_end -1 (None) and NoText
XmlScanned(source, position, tag, attributes, text_position, text, content_end, tail_position, tail_end, descendants) ==
    [error   |-> "none",
     message |-> "",
     line    |-> 0,
     nodes   |-> <<[position      |-> position,
                    tag           |-> tag,
                    attributes    |-> attributes,
                    text_position |-> text_position,
                    text          |-> text,
                    content_end   |-> content_end,
                    tail_position |-> tail_position,
                    tail          |-> Slice(source, tail_position, tail_end),
                    end           |-> tail_position + (tail_end - tail_position)]>>
                 \o descendants,
     end     |-> tail_end]

\* NewDumbXml.tail and end read once tail_position is known
XmlTailed(source, position, tag, attributes, text_position, text, content_end, tail_position, descendants) ==
    XmlScanned(source, position, tag, attributes, text_position, text, content_end,
               tail_position, _find_next_lt(source, tail_position), descendants)

\* NewDumbXml._process_comment, `close` being where "-->" was found or -1
ProcessComment(source, position, close) ==
    IF close < 0 THEN DumbXmlSyntaxError("Comment not closed", source, position)
    ELSE XmlTailed(source, position, COMMENT, <<>>, position + 4,
                   Slice(source, position + 4, close), close, close + 3, <<>>)

\* The state of the loop of NewDumbXml.attributes
AttributeState ==
    [status |-> "None", key_position |-> -1, key |-> <<>>, value_position |-> -1,
     value |-> <<>>, quote_type |-> "", attributes |-> <<>>]

\* One turn of the loop of NewDumbXml.attributes that does not break
AttributeStep(a, candidate, ptr) ==
    CASE a.status = "None" ->
            IF candidate \in Whitespace THEN a
            ELSE [a EXCEPT !.status = "IN_KEY", !.key_position = ptr, !.key = <<candidate>>]
      [] a.status = "IN_KEY" ->
            IF candidate = "=" THEN [a EXCEPT !.status = "AFTER_KEY"]
            ELSE [a EXCEPT !.key = Append(@, candidate)]
      [] a.status = "AFTER_KEY" ->
            IF candidate \in {"'", "\""}
            THEN [a EXCEPT !.status = "IN_VALUE", !.quote_type = candidate,
                           !.value_position = ptr + 1, !.value = <<>>]
            ELSE a
      [] a.status = "IN_VALUE" ->
            IF candidate = a.quote_type
            THEN [a EXCEPT !.status = "None",
                           !.attributes = Append(@, <<a.key_position, a.key,
                                                      a.value_position, a.value>>)]
            ELSE [a EXCEPT !.value = Append(@, candidate)]

RECURSIVE AttributesFrom(_, _, _)
\* The loop of NewDumbXml.attributes from ptr on: the attributes and the
\* offset of the "/" or ">" that ends them, or the IndexError turned into
\* DumbXmlSyntaxError
AttributesFrom(source, ptr, a) ==
    IF ptr >= Len(source) THEN [closed |-> FALSE, ptr |-> ptr, attributes |-> a.attributes]
    ELSE IF a.status = "None" /\ At(source, ptr) \in {"/", ">"}
    THEN [closed |-> TRUE, ptr |-> ptr, attributes |-> a.attributes]
    ELSE AttributesFrom(source, ptr + 1, AttributeStep(a, At(source, ptr), ptr))

\* NewDumbXml.attributes
attributes(source, position, tag) ==
    AttributesFrom(source, position + 1 + Len(tag), AttributeState)

RECURSIVE NodeAt(_, _)
RECURSIVE Children(_, _, _, _, _)

\* C15 mutant: a child built over the slice of the source that it starts in
InnerOverSlice(source, start) ==
    [NodeAt(SliceFrom(source, start), 0) EXCEPT !.end = @ + start]

\* inner = self.__class__(self.source, start), iterated by the consumer
Inner(source, start) == NodeAt(source, start)

\* The closing tag found at `start`: content_end and tail_position, `close`
\* being the first offset after the tag name that holds no whitespace
Closing(source, position, tag, start, close, nodes) ==
    IF Slice(source, start + 2, start + 2 + Len(tag)) # tag
    THEN DumbXmlSyntaxError("Closing tag does not match opening tag", source, position)
    ELSE IF At(source, close) # ">"
    THEN DumbXmlSyntaxError("Invalid closing of tag", source, position)
    ELSE [error |-> "none", message |-> "", line |-> 0, nodes |-> nodes,
          content_end |-> start, tail_position |-> close + 1]

\* start = inner.end, and on to the next turn of the loop
ChildScanned(source, position, tag, nodes, inner) ==
    IF inner.error # "none" THEN inner
    ELSE Children(source, position, tag, inner.end, nodes \o inner.nodes)

\* The loop of NewDumbXml.__iter__ with the next "<" at `start`
Children(source, position, tag, start, nodes) ==
    IF start + 1 >= Len(source) THEN IndexError
    ELSE IF At(source, start + 1) = "/"
    THEN Closing(source, position, tag, start,
                 SkipChars(source, start + 2 + Len(tag), Whitespace), nodes)
    ELSE ChildScanned(source, position, tag, nodes, Inner(source, start))

\* The node once __iter__ has returned `iterated`
Iterated(source, position, tag, attrs, text_position, text, iterated) ==
    IF iterated.error # "none" THEN iterated
    ELSE XmlTailed(source, position, tag, attrs, text_position, text,
                   iterated.content_end, iterated.tail_position, iterated.nodes)

\* NewDumbXml.text, next_tag_position known, and __iter__
Texted(source, position, tag, attrs, text_position, next_tag_position) ==
    IF next_tag_position = Len(source)
    THEN DumbXmlSyntaxError("Tag not closed", source, position)
    ELSE Iterated(source, position, tag, attrs, text_position,
                  Slice(source, text_position, next_tag_position),
                  Children(source, position, tag, next_tag_position, <<>>))

\* C22 mutant: a single-tag read as an element with an empty body
SingleTagAsEmpty(source, position, tag, attrs, close) ==
    IF At(source, close) # ">"
    THEN DumbXmlSyntaxError("Opening tag not closed", source, position)
    ELSE XmlTailed(source, position, tag, attrs, close + 1, <<>>, close + 1, close + 1, <<>>)

\* The single-tag branch of text_position, `close` being the first offset
\* after the "/" that holds no whitespace
SingleTag(source, position, tag, attrs, close) ==
    IF At(source, close) # ">"
    THEN DumbXmlSyntaxError("Opening tag not closed", source, position)
    ELSE XmlTailed(source, position, tag, attrs, -1, NoText, -1, close + 1, <<>>)

\* NewDumbXml.text_position once the attributes are read
text_position(source, position, tag, attrs) ==
    IF ~attrs.closed THEN DumbXmlSyntaxError("Opening tag not closed", source, position)
    ELSE IF At(source, attrs.ptr) = "/"
    THEN SingleTag(source, position, tag, attrs.attributes,
                   SkipChars(source, attrs.ptr + 1, Whitespace))
    ELSE Texted(source, position, tag, attrs.attributes, attrs.ptr + 1,
                _find_next_lt(source, attrs.ptr + 1))

\* The node once its tag is known
Tagged(source, position, tag) ==
    text_position(source, position, tag, attributes(source, position, tag))

\* NewDumbXml.tag, `ptr` being the first offset after "<" that holds "/",
\* ">" or whitespace
tag(source, position, ptr) ==
    IF StartsWithAt(source, <<"<">> \o COMMENT, position)
    THEN ProcessComment(source, position, Find(source, <<"-", "-", ">">>, position + 4))
    ELSE IF ptr >= Len(source)
    THEN DumbXmlSyntaxError("Opening tag not closed", source, position)
    ELSE Tagged(source, position, Slice(source, position + 1, ptr))

\* NewDumbXml.position, then the tag
Positioned(source, position) ==
    tag(source, position, ScanTo(source, position + 1, {"/", ">"} \cup Whitespace))

\* NewDumbXml(source, start), scanned through
NodeAt(source, start) == Positioned(source, _find_next_lt(source, start))

\* NewDumbXml(source), recursively iterated
NewDumbXml(source) == NodeAt(source, 0)

\* --------------------------------------------------------------------------
\* The XML sources of the model, and the scan of each.  document is the
\* source with the offset of the "<" of its unclosed tag (-1 when every tag
\* is closed); parse_result is what the scan yielded or raised.
\* --------------------------------------------------------------------------

\* Children per element
MaxChildren == 2

\* The text of the root before its first child
XmlTexts == {<<>>, <<"x", "\n">>, <<"<", "!", "[", "C", "D", "A", "T", "A", "[", "<", "]", "]", ">">>}

\* Children of the root, each with its tail
XmlChildren ==
    {<<"<", "b", "/", ">">>,
     <<"<", "b", " ", "c", "=", "\"", "d", "\"", ">", "x", "<", "/", "b", ">", "y">>,
     <<"<", "!", "-", "-", "c", "-", "-", ">", "\n">>,
     <<"<", "b", ">", "<", "/", "b", ">">>,
     <<"<", "b", ">", "\n", "<", "c", " ", "/", ">", "z", "<", "/", "b", ">">>}

\* What stands before the root
XmlLeads == {<<>>, <<"\n">>}

\* lead, the opening tag of the root, its text and up to MaxChildren children
XmlOpened ==
    {[lead |-> lead, rest |-> <<"<", "a", " ", "k", "=", "'", "v", "'", ">">> \o text \o JoinWith(children, <<>>)] :
        lead \in XmlLeads, text \in XmlTexts,
        children \in UNION {[1..n -> XmlChildren] : n \in 0..MaxChildren}}

\* A source and the offset of the "<" of the tag that is never closed
XmlDoc(source, offending) == [source |-> source, offending |-> offending]

\* The sources in which every tag is closed
XmlClosed ==
    {XmlDoc(o.lead \o o.rest \o <<"<", "/", "a", ">">> \o tail, -1) :
        o \in XmlOpened, tail \in {<<>>, <<"\n">>}}

\* The sources whose root is never closed: the closing tag is missing, or
\* names another tag
XmlRootUnclosed ==
    {XmlDoc(o.lead \o o.rest \o closing, Len(o.lead)) :
        o \in XmlOpened, closing \in {<<>>, <<"<", "/", "b", ">">>}}

\* The sources that end in an opening tag or a comment that is cut short
XmlCutShort ==
    {XmlDoc(o.lead \o o.rest \o cut, Len(o.lead) + Len(o.rest)) :
        o \in XmlOpened, cut \in {<<"<", "b">>, <<"<", "b", " ", "c", "=", "\"", "d">>, <<"<", "b", " ", "/">>, <<"<", "!", "-", "-", "c">>}}
    \cup {XmlDoc(lead \o cut, Len(lead)) :
             lead \in XmlLeads, cut \in {<<"<", "a">>, <<"<", "b", " ", "c", "=", "\"", "d">>, <<"<", "b", " ", "/">>, <<"<", "!", "-", "-", "c">>}}

XmlDocs == XmlClosed \cup XmlRootUnclosed \cup XmlCutShort

XmlInit ==
    /\ handler = "xml"
    /\ pc = "start"
    /\ document \in XmlDocs
    /\ parse_result = NotYet
    /\ given = <<>>
    /\ compile_result = NotYet

\* for node in NewDumbXml(source).find_descendants(): pass, with the root
XmlScan ==
    /\ handler = "xml"
    /\ pc = "start"
    /\ parse_result' = NewDumbXml(document.source)
    /\ pc' = "parsed"
    /\ UNCHANGED <<handler, document, given, compile_result>>

XmlNext == XmlScan

XmlSpec == XmlInit /\ [][XmlNext]_vars

\* --------------------------------------------------------------------------
\* Properties of NewDumbXml
\* --------------------------------------------------------------------------

\* C14 (refuted by the code): the scan of a source with a tag that is never
\* properly closed raises DumbXmlSyntaxError, no other exception, and
\* reports the line of the "<" of that tag
C14_UnclosedTagRaises ==
    (handler = "xml" /\ pc = "parsed" /\ document.offending >= 0)
        => /\ parse_result.error = "DumbXmlSyntaxError"
           /\ parse_result.line
                  = 1 + Count(Slice(document.source, 0, document.offending), "\n")

\* C15: every position of every node reached, at any depth, is an offset
\* into the source of the root: "<" stands at position, text at
\* text_position, tail between tail_position and end, and every attribute
\* value at its value_position
C15_PositionsAreAbsolute ==
    (handler = "xml" /\ pc = "parsed" /\ parse_result.error = "none")
        => \A i \in DOMAIN parse_result.nodes :
              LET node == parse_result.nodes[i]
                  S    == document.source
              IN  /\ At(S, node.position) = "<"
                  /\ node.text_position >= 0
                        => Slice(S, node.text_position,
                                 node.text_position + Len(node.text)) = node.text
                  /\ Slice(S, node.tail_position, node.end) = node.tail
                  /\ \A k \in DOMAIN node.attributes :
                        Slice(S, node.attributes[k][3],
                              node.attributes[k][3] + Len(node.attributes[k][4]))
                            = node.attributes[k][4]

\* C15 witness: a scan that reached a grandchild of a root that does not
\* start the source, and a child with an attribute, a text and a tail
C15_Witness ==
    /\ handler = "xml" /\ pc = "parsed" /\ parse_result.error = "none"
    /\ parse_result.nodes[1].position > 0
    /\ \E i, j \in DOMAIN parse_result.nodes :
          /\ parse_result.nodes[i].tag = <<"c">>
          /\ j > 1
          /\ parse_result.nodes[j].attributes # <<>>
          /\ parse_result.nodes[j].text # <<>>
          /\ parse_result.nodes[j].tail # <<>>


\* --------------------------------------------------------------------------
\* The JSON handler run on plural envelopes: documents {"a": V} and
\* {"a": V, "b": "x"} where V is an envelope `{ keyword, plural, groups }`
\* of one or two `word {content}` groups, or a value that is no envelope
\* --------------------------------------------------------------------------

\* Groups per envelope
MaxGroups == 2

\* The words before a group's braces: rule names, a word that is no rule
\* name, a longer word that ends with a rule name, an explicit count
GroupWords == {<<"o", "n", "e">>, <<"o", "t", "h", "e", "r">>, <<"f", "e", "w">>, <<"u", "n", "o">>, <<"s", "o", "m", "e", "o", "n", "e">>, <<"=", "1">>}

\* The contents of a group, between its outer braces
GroupContents ==
    {<<"x">>, <<" ", "{", "n", "}", " ", "i", "t", "e", "m", " ">>,
     <<" ", "{", "n", "}", " ", "i", "t", "e", "m", "s", " ">>}

\* The start of an envelope, through the comma after `plural`
EnvelopeLeads == {<<"{", "n", ",", " ", "p", "l", "u", "r", "a", "l", ",", " ">>, <<"{", " ", "c", "o", "u", "n", "t", ",", " ", "p", "l", "u", "r", "a", "l", ",", " ">>}

\* The sequences of one to MaxGroups groups
GroupSeqs ==
    UNION {[1..n -> [word : GroupWords, content : GroupContents]] : n \in 1..MaxGroups}

\* `word {content}`
GroupText(group) == group.word \o <<" ", "{">> \o group.content \o <<"}">>

\* The text of the envelope with the given start and groups
EnvelopeText(lead, groups) ==
    lead \o JoinWith([i \in DOMAIN groups |-> GroupText(groups[i])], <<" ">>) \o <<" ", "}">>

\* Values that are no plural envelope: no braces, no second comma, another
\* second argument
NoEnvelopes == {<<"o", "n", "e", " ", "{", "x", "}">>, <<"{", "n", ",", " ", "p", "l", "u", "r", "a", "l", "}">>, <<"{", "n", ",", " ", "s", "e", "l", "e", "c", "t", ",", " ", "o", "n", "e", " ", "{", "x", "}", " ", "}">>, <<"{", "x", "}">>}

\* The document with V under "a", alone or followed by "b": "x"
PluralDoc(value, second) ==
    IF second
    THEN DictText(<<<<"a">>, <<"b">>>>, <<Quoted(value), Quoted(<<"x">>)>>, <<",", " ">>)
    ELSE DictText(<<<<"a">>>>, <<Quoted(value)>>, <<",", " ">>)

PluralDocs ==
    {PluralDoc(EnvelopeText(lead, groups), second) :
        lead \in EnvelopeLeads, groups \in GroupSeqs, second \in BOOLEAN}
    \cup {PluralDoc(value, second) : value \in NoEnvelopes, second \in BOOLEAN}

PluralInit ==
    /\ handler = "json"
    /\ pc = "start"
    /\ document \in PluralDocs
    /\ parse_result = NotYet
    /\ given = <<>>
    /\ compile_result = NotYet

PluralSpec == PluralInit /\ [][JsonNext]_vars

\* --------------------------------------------------------------------------
\* _clean_empties applied once and twice to every short text
\* --------------------------------------------------------------------------

\* Characters per text
MaxCleanLen == 5

\* Braces, brackets, commas, whitespace and a letter
CleanAlphabet == {"{", "}", "[", "]", ",", " ", "x"}

CleanInit ==
    /\ handler = "clean"
    /\ pc = "start"
    /\ document \in UNION {[1..n -> CleanAlphabet] : n \in 0..MaxCleanLen}
    /\ parse_result = <<>>
    /\ given = <<>>
    /\ compile_result = <<>>

\* new_template = self._clean_empties(new_template)
CleanOnce ==
    /\ handler = "clean"
    /\ pc = "start"
    /\ parse_result' = _clean_empties(document)
    /\ pc' = "parsed"
    /\ UNCHANGED <<handler, document, given, compile_result>>

\* self._clean_empties of what _clean_empties returned
CleanTwice ==
    /\ handler = "clean"
    /\ pc = "parsed"
    /\ compile_result' = _clean_empties(parse_result)
    /\ pc' = "compiled"
    /\ UNCHANGED <<handler, document, given, parse_result>>

CleanNext == CleanOnce \/ CleanTwice

CleanSpec == CleanInit /\ [][CleanNext]_vars

\* --------------------------------------------------------------------------
\* Properties of the plural grammar and of the cleanup
\* --------------------------------------------------------------------------

\* The value under "a" in a document of PluralDocs
ValueOfA == Slice(document, 7, Find(document, <<"\"">>, 7))

\* The sequences of groups whose texts, a space after each, make up `text`
RECURSIVE GroupsIn(_)
GroupsIn(text) ==
    IF text = <<>> THEN {<<>>}
    ELSE UNION {{<<group>> \o rest :
                    rest \in GroupsIn(SliceFrom(text, Len(GroupText(group)) + 1))} :
                group \in {g \in [word : GroupWords, content : GroupContents] :
                              StartsWithAt(text, GroupText(g) \o <<" ">>, 0)}}

\* The envelopes whose text is the value under "a"
EnvelopesOfA ==
    UNION {{[lead |-> lead, groups |-> groups] :
               groups \in GroupsIn(Slice(ValueOfA, Len(lead), Len(ValueOfA) - 1)) \ {<<>>}} :
           lead \in {l \in EnvelopeLeads :
                        StartsWithAt(ValueOfA, l, 0) /\ ValueOfA[Len(ValueOfA)] = "}"}}

\* Every group carries a rule name, and no rule name twice
RulesOnly(groups) ==
    /\ \A i \in DOMAIN groups : get_rule_number(groups[i].word) >= 0
    /\ \A i, j \in DOMAIN groups : groups[i].word = groups[j].word => i = j

\* Some group carries an explicit count
HasCount(groups) == \E i \in DOMAIN groups : groups[i].word = <<"=", "1">>

\* The rule-to-text mapping of groups that carry rule names: each content
\* as it stands between the outer braces
RulesOf(groups) ==
    [r \in {get_rule_number(groups[i].word) : i \in DOMAIN groups} |->
        groups[CHOOSE i \in DOMAIN groups : get_rule_number(groups[i].word) = r].content]

\* The value under "a" was extracted as one regular string, untouched
RegularA ==
    /\ ~parse_result.raised
    /\ Len(parse_result.stringset) >= 1
    /\ parse_result.stringset[1]
           = OpenString(<<"a">>, ValueOfA, 0, FALSE, <<>>)
    /\ parse_result.transcriber.skipped[1] = <<7, 7 + Len(ValueOfA)>>

\* The handler as parse has it when it reaches the value under "a"
BeforeA == [ParseState(Transcriber(document)) EXCEPT !.existing_keys = {<<"a">>}]

C17_InvalidRuleRaises ==
    (handler = "json" /\ pc # "start")
        => \A e \in EnvelopesOfA :
              (~HasCount(e.groups)
               /\ \E i \in DOMAIN e.groups : get_rule_number(e.groups[i].word) < 0)
                  => /\ parse_result.raised
                     /\ parse_result.error.kind = "ParseError: invalid plural rule"
                     /\ parse_result.stringset = <<>>

\* C18: _parse_special returns None, leaving the handler and its Transcriber
\* as they were, for a value that is no envelope, whose second argument is
\* not `plural`, or that holds an explicit-count group; the value is then
\* extracted as a regular string
C18_NotSpecialIsRegular ==
    (handler = "json" /\ pc # "start")
        => ((ValueOfA \in NoEnvelopes \/ \E e \in EnvelopesOfA : HasCount(e.groups))
               => /\ _parse_special(BeforeA, <<"a">>, ValueOfA, 7)
                         = StringResult(BeforeA, FALSE, <<>>)
                  /\ RegularA)

\* C18 witness: a parse that extracted, as a regular string, an envelope
\* with an explicit-count group followed by a rule group
C18_Witness ==
    /\ handler = "json" /\ pc = "parsed"
    /\ \E e \in EnvelopesOfA :
          /\ Len(e.groups) = 2
          /\ e.groups[1].word = <<"=", "1">>
          /\ e.groups[2].word = <<"o", "t", "h", "e", "r">>
    /\ RegularA

\* The rule numbers of a mapping in ascending order
RECURSIVE Ascending(_)
Ascending(rules) ==
    IF rules = {} THEN <<>>
    ELSE <<LeastOr(rules, 0)>> \o Ascending(rules \ {LeastOr(rules, 0)})

\* The groups of a mapping `<rule-name> {<content>}` in ascending order of
\* the rule numbers, joined by the delimiter
AscendingGroups(strings, delimiter) ==
    JoinWith([k \in 1..Cardinality(DOMAIN strings) |->
                 RuleNames[Ascending(DOMAIN strings)[k] + 1] \o <<" ", "{">>
                 \o strings[Ascending(DOMAIN strings)[k]] \o <<"}">>],
             delimiter)

HasEmpty(text) ==
    \E i \in 1..Len(text) :
        \E j \in (i + 1)..Len(text) :
            /\ <<text[i], text[j]>>
                   \in {<<"{", ",">>, <<"[", ",">>, <<",", "}">>, <<",", "]">>, <<",", ",">>}
            /\ \A k \in (i + 1)..(j - 1) : text[k] \in Whitespace

\* C20: _clean_empties ends, each collapse making the text shorter, what
\* it returns matches none of its five patterns, and applying it again
\* changes nothing
C20_CleanEmptiesIdempotent ==
    handler = "clean"
        => /\ FirstPattern(document) # 0
                 => Len(Collapse(document,
                                 MatchStart(document,
                                            EmptyPatterns[FirstPattern(document)][1],
                                            EmptyPatterns[FirstPattern(document)][2]),
                                 EmptyPatterns[FirstPattern(document)][3]))
                        < Len(document)
           /\ pc # "start"
                 => /\ ~HasEmpty(parse_result)
                    /\ Len(parse_result) <= Len(document)
                    /\ HasEmpty(document) => Len(parse_result) < Len(document)
           /\ pc = "compiled" => compile_result = parse_result

\* C20 witness: a text that took several collapses, cleaned twice
C20_Witness ==
    /\ handler = "clean" /\ pc = "compiled"
    /\ Len(document) - Len(parse_result) >= 3
    /\ Len(parse_result) >= 2
    /\ Contains(document, <<",", " ", ",">>)


\* --------------------------------------------------------------------------
\* Properties of the JSON handler's order, cursor and containers
\* --------------------------------------------------------------------------

\* The offset of an OpenString's placeholder in a template, or -1
PlaceholderAt(template, openstring) ==
    Find(template, template_replacement(openstring), 0)

\* C21: in the stringset parse returns, the i-th entry (from 0) has order i,
\* regular or pluralized and at any depth, so the orders are strictly
\* increasing, and the entries stand in the order in which their
\* placeholders stand in the template, which is the order of the document
C21_OrderIsEncounterOrder ==
    (handler = "json" /\ pc # "start" /\ ~parse_result.raised)
        => /\ \A i \in DOMAIN parse_result.stringset :
                 /\ parse_result.stringset[i].order = i - 1
                 /\ PlaceholderAt(parse_result.template, parse_result.stringset[i]) >= 0
           /\ \A i, j \in DOMAIN parse_result.stringset :
                 i < j => /\ parse_result.stringset[i].order
                                 < parse_result.stringset[j].order
                          /\ PlaceholderAt(parse_result.template, parse_result.stringset[i])
                                 < PlaceholderAt(parse_result.template,
                                                 parse_result.stringset[j])
           /\ parse_result.order = Len(parse_result.stringset)

\* C21 witness: a parse that extracted a pluralized string and, after it, a
\* regular string from a nested container
C21_Witness ==
    /\ handler = "json" /\ pc = "parsed" /\ ~parse_result.raised
    /\ \E i, j \in DOMAIN parse_result.stringset :
          /\ i < j
          /\ parse_result.stringset[i].pluralized
          /\ ~parse_result.stringset[j].pluralized
          /\ Contains(parse_result.stringset[j].key, <<".">>)


\* --------------------------------------------------------------------------
\* More properties of NewDumbXml
\* --------------------------------------------------------------------------

\* The offset of the ">" that ends the opening tag at `position` (no
\* attribute value of the sources holds one)
OpeningEnd(source, position) == Find(source, <<">">>, position)

\* C22: a self-closing tag has text None, text_position None, content_end
\* None and no children: the next node stands after it; an empty element has
\* the empty string as text and its text_position just after the ">" of its
\* opening tag
C22_SelfClosingHasNoText ==
    (handler = "xml" /\ pc = "parsed" /\ parse_result.error = "none")
        => \A i \in DOMAIN parse_result.nodes :
              LET node == parse_result.nodes[i]
                  S    == document.source
                  gt   == OpeningEnd(S, node.position)
              IN  /\ (node.tag # COMMENT /\ At(S, gt - 1) = "/")
                        => /\ node.text = NoText
                           /\ node.text_position = -1
                           /\ node.content_end = -1
                           /\ node.tail_position = gt + 1
                           /\ \A j \in DOMAIN parse_result.nodes :
                                 j > i => parse_result.nodes[j].position >= gt + 1
                  /\ (node.tag # COMMENT /\ At(S, gt - 1) # "/"
                      /\ StartsWithAt(S, <<"<", "/">>, gt + 1))
                        => /\ node.text = <<>>
                           /\ node.text_position = gt + 1
                           /\ node.content_end = gt + 1

\* C22 witness: a scan that met a self-closing tag and an empty element
C22_Witness ==
    /\ handler = "xml" /\ pc = "parsed" /\ parse_result.error = "none"
    /\ \E i, j \in DOMAIN parse_result.nodes :
          /\ parse_result.nodes[i].text = NoText
          /\ parse_result.nodes[i].text_position = -1
          /\ parse_result.nodes[j].text = <<>>
          /\ parse_result.nodes[j].tag = <<"b">>


\* --------------------------------------------------------------------------
\* _find_next_lt on texts with CDATA regions: document is a text made of
\* pieces; given is the start a search was made from and parse_result what
\* it returned; compile_result is the scan of <a>document</a>
\* --------------------------------------------------------------------------

\* Pieces per text
MaxLtPieces == 4

\* A CDATA opening and closing, parts of them, a tag and plain characters
LtPieces ==
    {CDataOpen, CDataClose, <<"<">>, <<"<", "b", "/", ">">>, <<"]">>, <<">">>,
     <<"x">>}

LtInit ==
    /\ handler = "lt"
    /\ pc = "start"
    /\ document \in {JoinWith(pieces, <<>>) :
                        pieces \in UNION {[1..n -> LtPieces] : n \in 0..MaxLtPieces}}
    /\ parse_result = -1
    /\ given = -1
    /\ compile_result = NotYet

\* self._find_next_lt(start)
LtFind ==
    /\ handler = "lt"
    /\ pc = "start"
    /\ \E start \in 0..Len(document) :
          /\ given' = start
          /\ parse_result' = _find_next_lt(document, start)
    /\ pc' = "parsed"
    /\ UNCHANGED <<handler, document, compile_result>>

\* NewDumbXml("<a>" + document + "</a>"), iterated
LtScan ==
    /\ handler = "lt"
    /\ pc = "parsed"
    /\ compile_result' = NewDumbXml(<<"<", "a", ">">> \o document \o <<"<", "/", "a", ">">>)
    /\ pc' = "compiled"
    /\ UNCHANGED <<handler, document, parse_result, given>>

LtNext == LtFind \/ LtScan

LtSpec == LtInit /\ [][LtNext]_vars

\* The offset i of `source` lies in a CDATA region that opens at or after
\* start: some "<![CDATA[" stands at o, start <= o <= i, and no "]]>" stands
\* wholly between the end of that opening and i
InCData(source, start, i) ==
    \E o \in start..i :
        /\ StartsWithAt(source, CDataOpen, o)
        /\ ~\E c \in (o + Len(CDataOpen))..(i - Len(CDataClose)) :
               StartsWithAt(source, CDataClose, c)

\* The offsets at or after start of a "<" outside every such region
TagOpens(source, start) ==
    {i \in start..(Len(source) - 1) :
        At(source, i) = "<" /\ ~InCData(source, start, i)}

\* C27: _find_next_lt(start) returns the least offset at or after start of
\* a "<" that lies outside every CDATA region opening at or after start, the
\* "<" of an opening being part of its region, or len(source) when there is
\* none; and a body in which every "<" lies in a CDATA region is the text of
\* its node, whole
C27_NextLtSkipsCData ==
    (handler = "lt" /\ pc # "start")
        => /\ parse_result = LeastOr(TagOpens(document, given), Len(document))
           /\ parse_result < Len(document)
                 => /\ At(document, parse_result) = "<"
                    /\ ~StartsWithAt(document, CDataOpen, parse_result)
           /\ (pc = "compiled" /\ TagOpens(document, 0) = {}
               /\ compile_result.error = "none")
                 => compile_result.nodes[1].text = document

\* C27 witness: a search that passed a "<" inside a closed CDATA region and
\* returned a later "<", and the scan of a body holding such a region
C27_Witness ==
    /\ handler = "lt" /\ pc = "compiled"
    /\ \E i \in given..(parse_result - 1) :
          /\ At(document, i) = "<"
          /\ ~StartsWithAt(document, CDataOpen, i)
    /\ parse_result < Len(document)
    /\ compile_result.error = "none"
    /\ Contains(compile_result.nodes[1].text, CDataClose)


\* --------------------------------------------------------------------------
\* More properties of the Transcriber
\* --------------------------------------------------------------------------

\* The calls that append one entry to destination
AppendingCalls == {"copy", "copy_until", "add", "mark_section_start", "mark_section_end"}

\* C25: every call leaves the entries destination had in their places:
\* each is as it was, or was replaced with None by remove_section; a None
\* stays None; copy, copy_until, add and the two marks append exactly one
\* entry and no other call appends
C25_DestinationOnlyGrows ==
    (handler = "transcriber" /\ pc = "parsed")
        => LET before == parse_result.destination
               after  == compile_result.destination
           IN  /\ Len(after) = Len(before)
                       + (IF LastCall.name \in AppendingCalls THEN 1 ELSE 0)
               /\ \A i \in DOMAIN before :
                     /\ \/ after[i] = before[i]
                        \/ after[i] = None /\ LastCall.name = "remove_section"
                     /\ before[i] = None => after[i] = None

\* C25 witness: an entry appended by add after remove_section had replaced
\* a chunk with None
C25_Witness ==
    /\ handler = "transcriber" /\ pc = "parsed"
    /\ LastCall.name = "add"
    /\ \E i \in DOMAIN given :
          /\ given[i].name = "remove_section"
          /\ \E j \in 1..(i - 1) : given[j].name \in {"copy", "add"}
    /\ \E i \in DOMAIN parse_result.destination :
          /\ parse_result.destination[i] = None
          /\ compile_result.destination[i] = None
    /\ compile_result.destination[Len(compile_result.destination)].kind = "chunk"


\* --------------------------------------------------------------------------
\* DumbXml (utils/xml.py): the scanner over a content that starts with "<"
\* --------------------------------------------------------------------------

\* What find_closing hands back when its loop ends without a return
\* (Python: None, which no caller can unpack)
NoClosing == <<-1, -1>>

\* OPENING_TAG_PAT searched in content[start:], content[start] being "<":
\* the offset just after the first ">", or -1 when there is none
OpeningMatchEnd(content, start) ==
    IF Find(content, <<">">>, start) < 0 THEN -1
    ELSE Find(content, <<">">>, start) + 1

\* The group `name` of OPENING_TAG_PAT: the characters after "<" up to the
\* first whitespace or ">"
OpeningName(content, start) ==
    Slice(content, start + 1, ScanTo(content, start + 1, Whitespace \cup {">"}))

\* SINGLE_TAG_PAT searched in the opening tag that ends before `end`: the
\* last character before the ">" that is no whitespace is "/"
IsSingleTag(content, start, end) ==
    \E k \in start..(end - 2) :
        /\ At(content, k) = "/"
        /\ \A j \in (k + 1)..(end - 2) : At(content, j) \in Whitespace

\* The least offset >= ptr where tag_pat matches: "<" and the name, or "</",
\* the name and ">"; -1 when there is none
NextTagMatch(content, ptr, tag_name) ==
    LeastOr({p \in ptr..(Len(content) - 1) :
                \/ StartsWithAt(content, <<"<">> \o tag_name, p)
                \/ StartsWithAt(content, <<"<", "/">> \o tag_name \o <<">">>, p)},
            -1)

RECURSIVE CountMatches(_, _, _, _)
\* One turn of the loop over match_generator, for the match at p
CountMatch(content, tag_name, p, count) ==
    IF p < 0 THEN NoClosing
    ELSE IF At(content, p + 1) = "/"
    THEN (IF count = 1 THEN <<p, p + Len(tag_name) + 3>>
          ELSE CountMatches(content, tag_name, p + Len(tag_name) + 3, count - 1))
    ELSE CountMatches(content, tag_name, p + Len(tag_name) + 1, count + 1)

\* The loop over match_generator from ptr on
CountMatches(content, tag_name, ptr, count) ==
    CountMatch(content, tag_name, NextTagMatch(content, ptr, tag_name), count)

\* DumbXml.find_closing past the comment case, the opening tag matched
FindClosingOf(content, start, end, tag_name) ==
    IF IsSingleTag(content, start, end) THEN <<end, end>>
    ELSE CountMatches(content, tag_name, start + 1 + Len(tag_name), 1)

\* DumbXml.find_closing
find_closing(content, start) ==
    IF StartsWithAt(content, <<"<", "!", "-", "-">>, start)
    THEN <<Find(content, <<"-", "-", ">">>, start),
           Find(content, <<"-", "-", ">">>, start) + 3>>
    ELSE FindClosingOf(content, start, OpeningMatchEnd(content, start),
                       OpeningName(content, start))

\* DumbXml.__init__ of an element: self.inner, or the TypeError raised when
\* find_closing(0) returned None
DumbXmlInner(content) ==
    IF find_closing(content, 0) = NoClosing THEN [raised |-> TRUE, inner |-> <<>>]
    ELSE [raised |-> FALSE,
          inner  |-> Slice(content, OpeningMatchEnd(content, 0),
                           find_closing(content, 0)[1])]

\* --------------------------------------------------------------------------
\* find_closing on well-formed contents: an element <a>...</a> whose body is
\* made of texts and elements, alone or inside <r>...</r>.  document is the
\* content with the offset of the element's "<" and of its closing tag.
\* --------------------------------------------------------------------------

\* Pieces per body
MaxBody == 2

\* Texts, nested same-named elements, a self-closing same-named tag, an
\* element whose name begins with the same name, another element
BodyPieces ==
    {<<"x">>, <<"<", "a", ">", "<", "/", "a", ">">>, <<"<", "a", ">", "x", "<", "/", "a", ">">>, <<"<", "a", "/", ">">>, <<"<", "a", "b", ">", "<", "/", "a", "b", ">">>, <<"<", "b", ">", "<", "/", "b", ">">>, <<"<", "a", ">", "<", "a", ">", "<", "/", "a", ">", "<", "/", "a", ">">>}

\* The bodies
Bodies == {JoinWith(pieces, <<>>) : pieces \in UNION {[1..n -> BodyPieces] : n \in 0..MaxBody}}

ClosingDocs ==
    {[content |-> lead \o <<"<", "a", ">">> \o body \o <<"<", "/", "a", ">">> \o tail
                       \o (IF lead = <<>> THEN <<>> ELSE <<"<", "/", "r", ">">>),
      start   |-> Len(lead),
      closing |-> Len(lead) + 3 + Len(body)] :
        lead \in {<<>>, <<"<", "r", ">">>}, body \in Bodies, tail \in {<<>>, <<"y">>}}

ClosingInit ==
    /\ handler = "dumbxml"
    /\ pc = "start"
    /\ document \in ClosingDocs
    /\ parse_result = NoClosing
    /\ given = <<>>
    /\ compile_result = NotYet

\* DumbXml(content).find_closing(start)
FindClosing ==
    /\ handler = "dumbxml"
    /\ pc = "start"
    /\ parse_result' = find_closing(document.content, document.start)
    /\ pc' = "parsed"
    /\ UNCHANGED <<handler, document, given, compile_result>>

\* DumbXml(content[start:]).inner
ReadInner ==
    /\ handler = "dumbxml"
    /\ pc = "parsed"
    /\ compile_result' = DumbXmlInner(SliceFrom(document.content, document.start))
    /\ pc' = "compiled"
    /\ UNCHANGED <<handler, document, given, parse_result>>

ClosingNext == FindClosing \/ ReadInner

ClosingSpec == ClosingInit /\ [][ClosingNext]_vars

\* C26 (refuted by the code): on a well-formed content, find_closing(start)
\* returns the offsets of the start and the end of the closing tag of the
\* element that opens at start, whatever same-named elements, self-closing
\* same-named tags or tags with a longer name its body holds
C26_FindsMatchingClosing ==
    (handler = "dumbxml" /\ pc # "start")
        => parse_result = <<document.closing, document.closing + 4>>


\* --------------------------------------------------------------------------
\* The walk of _replace_translations, unit by unit
\* --------------------------------------------------------------------------

RECURSIVE UnitLog(_, _, _, _, _)
\* The loop of _insert_from_dict / _insert_from_list from the i-th item of
\* `parsed` on, replayed with _insert_item from the handler state c: for
\* every unit, in the order of the walk and a container before its items,
\* its path, its value, stringset_index before and after _insert_item, what
\* _insert_item returned (kept), whether every entry of destination from
\* the unit's SectionStart on is None afterwards (gone), and ptr afterwards
UnitLog(c, parsed, is_real_stringset, i, path) ==
    IF i > Len(parsed.items) THEN <<>>
    ELSE LET item   == parsed.items[i]
             marked == [c EXCEPT !.transcriber =
                           mark_section_start(
                               copy_until(@, ItemStart(parsed.type, item)))]
             r      == _insert_item(marked, item.value, item.value_position,
                                    is_real_stringset)
             after  == r.c.transcriber.destination
         IN  <<[path   |-> Append(path, i),
                value  |-> item.value,
                before |-> c.stringset_index,
                after  |-> r.c.stringset_index,
                kept   |-> r.at_least_one,
                gone   |-> \A k \in Len(marked.transcriber.destination)..Len(after) :
                               after[k] = None,
                ptr    |-> r.c.transcriber.ptr]>>
             \o (IF item.value.type \in {"dict", "list"}
                 THEN UnitLog(marked, item.value, is_real_stringset, 1, Append(path, i))
                 ELSE <<>>)
             \o UnitLog(r.c, parsed, is_real_stringset, i + 1, path)

\* The log of _replace_translations(template, stringset, is_real_stringset)
ReplaceLog(template, stringset, is_real_stringset) ==
    IF DumbJson(Transcriber(template).source, 0).type = "bad" THEN <<>>
    ELSE UnitLog(CompileState(Transcriber(template), stringset),
                 DumbJson(Transcriber(template).source, 0), is_real_stringset, 1, <<>>)

\* The units of a log that are no containers
Leaves(log) == SelectSeq(log, LAMBDA u : u.value.type \in {"str", "other"})

\* The string value reads as the placeholder of the entry, or holds it when
\* the entry is pluralized
MatchesEntry(value, string) ==
    \/ value = template_replacement(string)
    \/ string.pluralized /\ Contains(value, template_replacement(string))

\* stringset_index over the units of one pass: it starts at 0, each unit
\* starts where the one before ended, a string unit that matches
\* stringset[stringset_index] is substituted and adds 1, every other unit is
\* left or removed and adds nothing, whatever later entries it may match
SequentialCursor(log, stringset, final_index) ==
    /\ Leaves(log) # <<>> => Leaves(log)[1].before = 0
    /\ \A k \in DOMAIN Leaves(log) :
          LET u == Leaves(log)[k]
              substituted == /\ u.value.type = "str"
                             /\ u.before < Len(stringset)
                             /\ MatchesEntry(u.value.text, stringset[u.before + 1])
          IN  /\ u.after = u.before + (IF substituted THEN 1 ELSE 0)
              /\ u.kept = (substituted \/ u.value.type = "other")
              /\ k < Len(Leaves(log)) => Leaves(log)[k + 1].before = u.after
              /\ k = Len(Leaves(log)) => final_index = u.after
    /\ \A k \in DOMAIN log : log[k].after >= log[k].before

\* The stringset of compile's first pass
FakeStringset(stringset) == [i \in DOMAIN stringset |-> FakeString(stringset[i])]

\* C23: in both passes of compile, stringset_index starts at 0, never
\* decreases, grows by exactly 1 when a unit is substituted, regular or
\* pluralized, and not at all when a unit is removed or is a non-string
\* scalar; a unit is substituted exactly when it matches
\* stringset[stringset_index], whatever other entries hold
C23_CursorIsSequential ==
    (handler = "json" /\ pc = "compiled" /\ ~compile_result.first.raised)
        => /\ SequentialCursor(ReplaceLog(parse_result.template, FakeStringset(given),
                                          FALSE),
                               FakeStringset(given),
                               compile_result.first.stringset_index)
           /\ ~compile_result.raised
                 => SequentialCursor(ReplaceLog(compile_result.new_template, given, TRUE),
                                     given, compile_result.second.stringset_index)

\* C23 witness: a first pass that substituted a string, left a number and
\* removed a string although a later entry of the stringset carries its
\* placeholder
C23_Witness ==
    /\ handler = "json" /\ pc = "compiled" /\ ~compile_result.raised
    /\ LET log == Leaves(ReplaceLog(parse_result.template, FakeStringset(given), FALSE))
       IN  /\ \E k \in DOMAIN log :
                 /\ log[k].value.type = "str"
                 /\ ~log[k].kept
                 /\ \E j \in (log[k].before + 2)..Len(given) :
                       MatchesEntry(log[k].value.text, given[j])
           /\ \E k \in DOMAIN log : log[k].after = log[k].before + 1
           /\ \E k \in DOMAIN log : log[k].value.type = "other"


\* The string units of a log that were substituted
Substituted(log) ==
    SelectSeq(log, LAMBDA u : u.value.type = "str" /\ u.after = u.before + 1)

Containers(walk) == {i \in DOMAIN walk : walk[i].value.type \in {"dict", "list"}}

\* The unit j of a walk lies inside the container i
Inside(walk, i, j) ==
    /\ walk[j].value_position > walk[i].value.start
    /\ walk[j].value_position < walk[i].value.end

\* C28 (refuted by the code): the template of parse holds the nested
\* containers from which a string was extracted and no other: a container
\* whose walk extracts no string is dropped, with all it holds
C28_StringFreeContainerDropped ==
    (handler = "json" /\ pc # "start" /\ ~parse_result.raised)
        => Cardinality(Containers(Walk(parse_result.template)))
               = Cardinality({i \in Containers(Walk(document)) :
                                 \E j \in Extractable(Walk(document)) :
                                     Inside(Walk(document), i, j)})


\* --------------------------------------------------------------------------
\* The JSON handler run on objects whose keys hold punctuation
\* --------------------------------------------------------------------------

\* Pairs per object
MaxKeyed == 2

\* Keys that hold a comma before a closing bracket, an opening bracket
\* before a comma, two commas; and a plain key
PunctKeys ==
    {<<"a">>, <<",", "}">>, <<",", " ", "]">>, <<"{", ",">>, <<"[", " ", ",">>,
     <<",", ",">>}

KeyedDocs ==
    UNION {{DictText(keys, values, <<",", " ">>) :
               keys \in [1..n -> PunctKeys],
               values \in [1..n -> {Quoted(<<"x">>), <<"1">>}]} :
           n \in 1..MaxKeyed}

KeyedInit ==
    /\ handler = "json"
    /\ pc = "start"
    /\ document \in KeyedDocs
    /\ parse_result = NotYet
    /\ given = <<>>
    /\ compile_result = NotYet

KeyedSpec == KeyedInit /\ [][JsonNext]_vars

\* C30 (refuted by the code): compile with the complete stringset leaves
\* every key of the document in the output, character for character
C30_KeysUntouched ==
    (handler = "json" /\ pc = "compiled" /\ given = parse_result.stringset)
        => /\ ~compile_result.raised
           /\ \A key \in PunctKeys :
                 Contains(document, Quoted(key))
                     => Contains(compile_result.text, Quoted(key))


\* --------------------------------------------------------------------------
\* The JSON handler run on containers nested three deep: {"a": C} and
\* {"a": C, "b": "x"}, C a container of strings, numbers and containers of
\* at most one string or number
\* --------------------------------------------------------------------------

\* Items per container C
MaxDeep == 2

\* The innermost containers
InnerTexts ==
    {<<"[", "]">>, ListText(<<Quoted(<<"x">>)>>, <<>>), ListText(<<<<"1">>>>, <<>>),
     DictText(<<<<"a">>>>, <<Quoted(<<"x">>)>>, <<>>)}

\* The items of C
DeepItems == {Quoted(<<"x">>), Quoted(<<>>), <<"1">>} \cup InnerTexts

\* The containers C
DeepTexts ==
    UNION {{ListText(values, <<",", " ">>),
            DictText([i \in 1..Len(values) |-> <<"k">> \o IndexText(i)], values,
                     <<",", " ">>)} :
           values \in UNION {[1..n -> DeepItems] : n \in 0..MaxDeep}}

DeepDocs ==
    {DictText(<<<<"a">>>>, <<text>>, <<",", " ">>) : text \in DeepTexts}
    \cup {DictText(<<<<"a">>, <<"b">>>>, <<text, Quoted(<<"x">>)>>, <<",", " ">>) :
             text \in DeepTexts}

DeepInit ==
    /\ handler = "json"
    /\ pc = "start"
    /\ document \in DeepDocs
    /\ parse_result = NotYet
    /\ given = <<>>
    /\ compile_result = NotYet

DeepSpec == DeepInit /\ [][JsonNext]_vars

\* The units of a log that are the items of the container logged at k
ChildrenOf(log, k) ==
    {j \in DOMAIN log :
        /\ Len(log[j].path) = Len(log[k].path) + 1
        /\ SubSeq(log[j].path, 1, Len(log[k].path)) = log[k].path}

\* The containers of a log
LoggedContainers(log) == {k \in DOMAIN log : log[k].value.type \in {"dict", "list"}}

\* The nested containers of a document that hold, at any depth, a number or
\* a string whose entry is among `entries`
HoldingKept(walk, entries) ==
    {i \in Containers(walk) :
        \E j \in DOMAIN walk :
            /\ Inside(walk, i, j)
            /\ \/ walk[j].value.type = "other"
               \/ /\ j \in Extractable(walk)
                  /\ \E e \in DOMAIN entries : entries[e].key = walk[j].key}

\* C24 (refuted by the code): in compile a nested container is removed
\* exactly when every one of its items was removed, an item being kept when it is a substituted
\* string, a non-string scalar or a container that is kept; when it is
\* removed every entry of destination from the SectionStart of its
\* `key: container` span on is None, those of its removed items included,
\* and the cursor stands after the container; compile raises nothing and
\* the containers and scalars that are kept are those of the output
C24_ContainerRemovedIffEmpty ==
    (handler = "json" /\ pc = "compiled")
        => LET log == ReplaceLog(parse_result.template, FakeStringset(given), FALSE)
           IN  /\ ~compile_result.raised
               /\ \A k \in LoggedContainers(log) :
                     /\ log[k].kept = (\E j \in ChildrenOf(log, k) : log[j].kept)
                     /\ ~log[k].kept => /\ log[k].gone
                                        /\ log[k].ptr = log[k].value.end + 1
                     /\ log[k].kept => ~log[k].gone
               /\ Cardinality(Containers(Walk(compile_result.text)))
                      = Cardinality({k \in LoggedContainers(log) : log[k].kept})
               /\ Len(Walk(compile_result.text))
                      = Cardinality({k \in DOMAIN log : log[k].kept})
               /\ IsTrimmed(parse_result.stringset, given)
                     => Cardinality(Containers(Walk(compile_result.text)))
                            = Cardinality(HoldingKept(Walk(document), given))


=============================================================================
